---- MODULE Spec2Model ----
(***************************************************************************)
(* The update protocol of the HTML document generated by buildTemplate     *)
(* (src/js/template-builders.mjs, the CasparCG generator of lines 296-797):*)
(* the early update stub, the real update handler, the first-play guard,   *)
(* the load callback that binds the view model and drains the queues, and  *)
(* the play / next / stop / remove commands.                               *)
(*                                                                         *)
(* JavaScript values are records [t, v]: t is the typeof tag and v the     *)
(* result of String(value).  A payload is the ordered list of the own      *)
(* keys of a flat mapping, <<[k |-> key, v |-> value], ...>>.              *)
(*                                                                         *)
(* A string update is the list of the lexical tokens of its text.          *)
(*                                                                         *)
(* log is a history variable: the runtime calls and property passes the    *)
(* document has made, in the order it made them.                           *)
(***************************************************************************)
EXTENDS Integers, Sequences, FiniteSets, TLC

VARIABLES
  cfg,                \* buildTemplate options and the page URL (fixed per run)
  scriptLoaded,       \* the main script has run (handlers replace the stubs)
  loaded,             \* the runtime's onLoad callback has run
  vmi,                \* the view-model handle is non-null
  cleaned,            \* r.cleanup() has been invoked
  earlyQ,             \* window.__caspar.q
  __pendingUpdates,   \* parsed objects held until vmi exists
  __hasUpdatedOnce,
  __firstPlayPending,
  __firstPlayTimer,   \* the variable is non-null (holds a timer id)
  timerScheduled,     \* the browser still holds the grace timeout
  vals,               \* current value of every view-model property
  log,                \* history of effects
  sent,               \* history: the raw value of every update call, by id
  nUpdates,           \* update calls made so far (gives each its id)
  nCalls,             \* play/next/stop/remove calls made so far
  clock,              \* the page's time, in milliseconds
  timeouts,           \* the setTimeout callbacks of scheduleInOut not yet run
  ranAt,              \* history: when onLoad and each of those callbacks ran
  job,                \* the buildSchema call in progress
  built,              \* what the last buildTemplate call returned
  app                 \* the editor page: its state, its controls, its awaits

\* The streaming-overlay document's timers; the editor's extractor and
\* synthesizer.
obsVars == <<clock, timeouts, ranAt>>
toolVars == <<job, built, app>>

vars == <<cfg, scriptLoaded, loaded, vmi, cleaned, earlyQ, __pendingUpdates,
          __hasUpdatedOnce, __firstPlayPending, __firstPlayTimer,
          timerScheduled, vals, log, sent, nUpdates, nCalls,
          clock, timeouts, ranAt, job, built, app>>

\* ------------------------------------------------------------------ bounds
\* The host makes at most MaxOps calls (updates and commands together).
MaxOps == 4
\* The same limit for the runs that exercise parsing and typed dispatch.
MaxTypedOps == 2
\* The overlay document is observed for this many milliseconds.
MaxClock == 7

\* ---------------------------------------------------------------- strings
\* The strings in use, each with its characters.
StringTable == {
    <<"", <<>>>>,
    <<"a", <<"a">>>>,
    <<"b", <<"b">>>>,
    <<"c", <<"c">>>>,
    <<"g", <<"g">>>>,
    <<"k", <<"k">>>>,
    <<"s", <<"s">>>>,
    <<"u", <<"u">>>>,
    <<"x", <<"x">>>>,
    <<"Title", <<"T", "i", "t", "l", "e">>>>,
    <<"title", <<"t", "i", "t", "l", "e">>>>,
    <<"Sub", <<"S", "u", "b">>>>,
    <<"sub", <<"s", "u", "b">>>>,
    <<"IN", <<"I", "N">>>>,
    <<"in", <<"i", "n">>>>,
    <<"OUT", <<"O", "U", "T">>>>,
    <<"out", <<"o", "u", "t">>>>,
    <<"NEXT", <<"N", "E", "X", "T">>>>,
    <<"next", <<"n", "e", "x", "t">>>>,
    <<"Count", <<"C", "o", "u", "n", "t">>>>,
    <<"count", <<"c", "o", "u", "n", "t">>>>,
    <<"Show", <<"S", "h", "o", "w">>>>,
    <<"show", <<"s", "h", "o", "w">>>>,
    <<"Tint", <<"T", "i", "n", "t">>>>,
    <<"tint", <<"t", "i", "n", "t">>>>,
    <<"Extra", <<"E", "x", "t", "r", "a">>>>,
    <<"extra", <<"e", "x", "t", "r", "a">>>>,
    <<"Bogus", <<"B", "o", "g", "u", "s">>>>,
    <<"bogus", <<"b", "o", "g", "u", "s">>>>,
    <<"Ghost", <<"G", "h", "o", "s", "t">>>>,
    <<"ghost", <<"g", "h", "o", "s", "t">>>>,
    <<"World", <<"W", "o", "r", "l", "d">>>>,
    <<"world", <<"w", "o", "r", "l", "d">>>>,
    <<"true", <<"t", "r", "u", "e">>>>,
    <<"TRUE", <<"T", "R", "U", "E">>>>,
    <<"false", <<"f", "a", "l", "s", "e">>>>,
    <<"yes", <<"y", "e", "s">>>>,
    <<"Yes", <<"Y", "e", "s">>>>,
    <<"no", <<"n", "o">>>>,
    <<"0", <<"0">>>>,
    <<"1", <<"1">>>>,
    <<"5", <<"5">>>>,
    <<"255", <<"2", "5", "5">>>>,
    <<"16755200", <<"1", "6", "7", "5", "5", "2", "0", "0">>>>,
    <<"16746496", <<"1", "6", "7", "4", "6", "4", "9", "6">>>>,
    <<"4294936576", <<"4", "2", "9", "4", "9", "3", "6", "5", "7", "6">>>>,
    <<"2164230144", <<"2", "1", "6", "4", "2", "3", "0", "1", "4", "4">>>>,
    <<"4278190080", <<"4", "2", "7", "8", "1", "9", "0", "0", "8", "0">>>>,
    <<"#FF8800", <<"#", "F", "F", "8", "8", "0", "0">>>>,
    <<"#ff8800", <<"#", "f", "f", "8", "8", "0", "0">>>>,
    <<"#80FF8800", <<"#", "8", "0", "F", "F", "8", "8", "0", "0">>>>,
    <<"#80ff8800", <<"#", "8", "0", "f", "f", "8", "8", "0", "0">>>>,
    <<"red", <<"r", "e", "d">>>>,
    <<"Any", <<"A", "n", "y">>>>,
    <<"any", <<"a", "n", "y">>>>,
    <<"Pic", <<"P", "i", "c">>>>,
    <<"pic", <<"p", "i", "c">>>>,
    <<"none", <<"n", "o", "n", "e">>>>,
    <<"null", <<"n", "u", "l", "l">>>>,
    <<"undefined", <<"u", "n", "d", "e", "f", "i", "n", "e", "d">>>>,
    <<"NaN", <<"N", "a", "N">>>>,
    <<"a\nb", <<"a", "\n", "b">>>>,
    <<"a b", <<"a", " ", "b">>>> }

Literals == { p[1] : p \in StringTable }
CharsOf == [l \in Literals |-> (CHOOSE p \in StringTable : p[1] = l)[2]]
Chars(l) == CharsOf[l]
\* The string made of the characters cs.
Lit(cs) == CHOOSE l \in Literals : CharsOf[l] = cs

LowerChar(c) ==
  CASE c = "A" -> "a" [] c = "B" -> "b" [] c = "C" -> "c" [] c = "D" -> "d"
    [] c = "E" -> "e" [] c = "F" -> "f" [] c = "G" -> "g" [] c = "H" -> "h"
    [] c = "I" -> "i" [] c = "J" -> "j" [] c = "K" -> "k" [] c = "L" -> "l"
    [] c = "M" -> "m" [] c = "N" -> "n" [] c = "O" -> "o" [] c = "P" -> "p"
    [] c = "Q" -> "q" [] c = "R" -> "r" [] c = "S" -> "s" [] c = "T" -> "t"
    [] c = "U" -> "u" [] c = "V" -> "v" [] c = "W" -> "w" [] c = "X" -> "x"
    [] c = "Y" -> "y" [] c = "Z" -> "z" [] OTHER -> c

\* String.prototype.toLowerCase
LowerOf == [l \in Literals |-> Lit([i \in 1..Len(CharsOf[l]) |-> LowerChar(CharsOf[l][i])])]
toLowerCase(k) == LowerOf[k]

DigitChars == {"0", "1", "2", "3", "4", "5", "6", "7", "8", "9"}
HexChars == DigitChars \cup {"a", "b", "c", "d", "e", "f", "A", "B", "C", "D", "E", "F"}
DigitValue(c) ==
  CASE c = "0" -> 0 [] c = "1" -> 1 [] c = "2" -> 2 [] c = "3" -> 3
    [] c = "4" -> 4 [] c = "5" -> 5 [] c = "6" -> 6 [] c = "7" -> 7
    [] c = "8" -> 8 [] c = "9" -> 9
    [] c \in {"a", "A"} -> 10 [] c \in {"b", "B"} -> 11 [] c \in {"c", "C"} -> 12
    [] c \in {"d", "D"} -> 13 [] c \in {"e", "E"} -> 14 [] c \in {"f", "F"} -> 15

\* Numbers are kept as two 16-bit limbs, n = hi * 65536 + lo, so that the
\* 32-bit colours stay exact.
Limb == 65536
Limbs(hi, lo) == [hi |-> hi, lo |-> lo]

\* The value of the digits cs[1..n] in the given radix.
RECURSIVE DigitsValue(_, _, _)
DigitsValue(cs, n, radix) ==
  IF n = 0 THEN Limbs(0, 0)
  ELSE LET x  == DigitsValue(cs, n - 1, radix)
           lo == x.lo * radix + DigitValue(cs[n])
       IN  Limbs(x.hi * radix + lo \div Limb, lo % Limb)

\* A JavaScript number that is a non-negative integer, or NaN.
Finite(x) == [fin |-> TRUE, hi |-> x.hi, lo |-> x.lo]
NaN == [fin |-> FALSE, hi |-> 0, lo |-> 0]
Small(n) == Finite(Limbs(0, n))

\* Number(s) for a string of decimal digits, the empty string, or a string
\* that is no numeric literal.
NumberOfString(l) ==
  LET cs == Chars(l) IN
  IF \A i \in 1..Len(cs) : cs[i] \in DigitChars
  THEN Finite(DigitsValue(cs, Len(cs), 10))
  ELSE NaN

\* parseInt(cs, 16): the longest prefix of hexadecimal digits.
HexPrefixLen(cs) ==
  CHOOSE n \in 0..Len(cs) :
    /\ \A i \in 1..n : cs[i] \in HexChars
    /\ n = Len(cs) \/ cs[n + 1] \notin HexChars
parseInt16(cs) ==
  IF HexPrefixLen(cs) = 0 THEN NaN ELSE Finite(DigitsValue(cs, HexPrefixLen(cs), 16))

\* ------------------------------------------------------- JavaScript values
Str(s) == [t |-> "string", v |-> s]
JsTrue == [t |-> "boolean", v |-> "true"]
JsFalse == [t |-> "boolean", v |-> "false"]
JsNull == [t |-> "null", v |-> "null"]
Undefined == [t |-> "undefined", v |-> "undefined"]
JsNumber(l) == [t |-> "number", v |-> l]
\* The number x; v is String(x).
Num(x) == JsNumber(CHOOSE l \in Literals : l # "" /\ NumberOfString(l) = x)
Bool(b) == IF b THEN JsTrue ELSE JsFalse

\* raw == null
IsNullish(val) == val.t \in {"undefined", "null"}

\* Number(val)
Number(val) ==
  CASE val.t \in {"string", "number"} -> NumberOfString(val.v)
    [] val.t = "boolean" -> Small(IF val.v = "true" THEN 1 ELSE 0)
    [] val.t = "null" -> Small(0)
    [] OTHER -> NaN

\* x >>> 0 and x | y on 32-bit operands.
ToUint32(x) == Finite(Limbs(x.hi % Limb, x.lo))
RECURSIVE BitOr(_, _, _)
BitOr(a, b, bits) ==
  IF bits = 0 THEN 0
  ELSE 2 * BitOr(a \div 2, b \div 2, bits - 1)
       + (IF a % 2 = 1 \/ b % 2 = 1 THEN 1 ELSE 0)
Or32(x, y) == Finite(Limbs(BitOr(x.hi % Limb, y.hi % Limb, 16), BitOr(x.lo, y.lo, 16)))
\* 0xFF000000
OpaqueAlpha == Finite(Limbs(65280, 0))

\* toColor32(raw): the 32-bit colour, or null (ok = FALSE).
NoColor == [ok |-> FALSE, n |-> NaN]
Color(x) == [ok |-> TRUE, n |-> ToUint32(x)]
\* (s.length === 7 ? (0xFF000000 | h) >>> 0 : h >>> 0), NaN acting as 0
HexColor(len, h) ==
  IF len = 7 THEN Color(Or32(OpaqueAlpha, IF h.fin THEN h ELSE Small(0)))
  ELSE Color(IF h.fin THEN h ELSE Small(0))
\* var n = Number(s); return isFinite(n) ? (n>>>0) : null;
NumericColor(n) == IF n.fin THEN Color(n) ELSE NoColor
ColorOfChars(cs, l) ==
  IF Len(cs) > 0 /\ cs[1] = "#"
  THEN HexColor(Len(cs), parseInt16(SubSeq(cs, 2, Len(cs))))
  ELSE NumericColor(NumberOfString(l))
toColor32(raw) ==
  IF IsNullish(raw) THEN NoColor ELSE ColorOfChars(Chars(raw.v), raw.v)

\* String(val).toLowerCase()==="true" || val===true || val===1
\*   || String(val).toLowerCase()==="yes"
BooleanOf(val) ==
  \/ toLowerCase(val.v) = "true"
  \/ val = JsTrue
  \/ (val.t = "number" /\ val.v = "1")
  \/ toLowerCase(val.v) = "yes"

\* ----------------------------------------------------------------- schema
\* schema.viewModelProps of the modelled document, in declaration order.
vprops == << [name |-> "Title", type |-> "string"],
             [name |-> "Sub",   type |-> "string"],
             [name |-> "Count", type |-> "number"],
             [name |-> "Show",  type |-> "boolean"],
             [name |-> "Tint",  type |-> "color"],
             [name |-> "IN",    type |-> "trigger"],
             [name |-> "OUT",   type |-> "trigger"],
             [name |-> "NEXT",  type |-> "trigger"] >>

PropNames == { vprops[i].name : i \in 1..Len(vprops) }
ValueProps == { vprops[i].name : i \in { j \in 1..Len(vprops) : vprops[j].type # "trigger" } }

\* Keys that occur in payloads, URL parameters and baked defaults.
Keys == PropNames \cup {"title", "count", "show", "in", "Ghost", "Extra", "Bogus", "Any", "Pic"}

\* VM_TYPES: exact name -> type ("" when absent).
DeclaredAs(name) == { vprops[i].type : i \in { j \in 1..Len(vprops) : vprops[j].name = name } }
TypeTable == [name \in Literals |->
                IF DeclaredAs(name) = {} THEN "" ELSE CHOOSE t \in DeclaredAs(name) : TRUE]
VM_TYPES(name) == TypeTable[name]

\* VM_INDEX: lowercased name -> exact name ("" when absent).
IndexedAs(lc) == { vprops[i].name : i \in { j \in 1..Len(vprops) : toLowerCase(vprops[j].name) = lc } }
IndexTable == [lc \in Literals |->
                 IF IndexedAs(lc) = {} THEN "" ELSE CHOOSE n \in IndexedAs(lc) : TRUE]
VM_INDEX(lc) == IndexTable[lc]

\* ---------------------------------------------------------------- runtime
\* The view model of the loaded file: the declared properties, and three
\* that the schema does not declare: the string Extra, the image Pic, and
\* Any, a name for which every accessor but vmi.image returns an item.
RuntimeType(name) ==
  CASE name = "Extra" -> "string"
    [] name = "Pic" -> "image"
    [] name = "Any" -> "any"
    [] OTHER -> VM_TYPES(name)
RuntimeProps == { n \in Keys : RuntimeType(n) \notin {"", "trigger"} }

\* The typed accessors vmi.string(name) etc.: "throws" when the runtime
\* raises for this property, "item" for a property of that type, else "null".
\* cfg.throws names the properties for which every accessor throws and the
\* accessors that throw for every name.
Member(type) ==
  CASE type = "string" -> "vmi.string" [] type = "number" -> "vmi.number"
    [] type = "boolean" -> "vmi.boolean" [] type = "color" -> "vmi.color"
    [] type = "image" -> "vmi.image" [] OTHER -> "vmi.trigger"
Accessor(type, name) ==
  IF name \in cfg.throws \/ Member(type) \in cfg.throws THEN "throws"
  ELSE IF RuntimeType(name) = type \/ (RuntimeType(name) = "any" /\ type # "image")
       THEN "item" ELSE "null"
HasAccessor(type, name) == Accessor(type, name) = "item"

\* ------------------------------------------------------- payload helpers
HasKey(o, k) == \E i \in 1..Len(o) : o[i].k = k
Get(o, k) == IF HasKey(o, k) THEN o[CHOOSE i \in 1..Len(o) : o[i].k = k].v ELSE Undefined

\* val===true || String(val)==="true" || String(val)==="1"
FiresTrigger(val) == val.v = "true" \/ val.v = "1"

Ev(e, n, id, q) == [e |-> e, n |-> n, id |-> id, q |-> q]

\* ------------------------------------------------ the document's closure
\* The mutable cells the handlers share, as one record that each function
\* below takes and returns.  exc is TRUE while an exception propagates.
Cur == [vmi |-> vmi, vals |-> vals, log |-> log,
        pend |-> __pendingUpdates, upd |-> __hasUpdatedOnce,
        fpp |-> __firstPlayPending, fpt |-> __firstPlayTimer,
        ts |-> timerScheduled, exc |-> FALSE]

Logged(s, e) == [s EXCEPT !.log = Append(@, e)]
\* A faulty runtime item that ignores the assignment.
SetValue_Ignored(s, name, val) == s
\* it.value = val
SetValue(s, name, val) == [s EXCEPT !.vals[name] = val]

\* throw and try { ... } catch(e){}.  A statement that follows a call is
\* skipped while s.exc is set.
Raise(s) == [s EXCEPT !.exc = TRUE]
Catch(s) == [s EXCEPT !.exc = FALSE]

\* r.play(), r.stop(), r.cleanup()
RuntimeCall(s, method) ==
  IF method \in cfg.throws THEN Raise(s)
  ELSE Logged(s, Ev(method, "", 0, Len(s.pend)))

\* The value a typed setter assigns: String(val), Number(val) when finite,
\* the boolean expression, toColor32(val) when not null.
NoValue == [ok |-> FALSE, v |-> Undefined]
FiniteValue(n) == IF n.fin THEN [ok |-> TRUE, v |-> Num(n)] ELSE NoValue
ColorValue(c) == IF c.ok THEN [ok |-> TRUE, v |-> Num(c.n)] ELSE NoValue
Coerce(type, val) ==
  CASE type = "string"  -> [ok |-> TRUE, v |-> Str(val.v)]
    [] type = "number"  -> FiniteValue(Number(val))
    [] type = "boolean" -> [ok |-> TRUE, v |-> Bool(BooleanOf(val))]
    [] type = "color"   -> ColorValue(toColor32(val))

\* if (vmi && vmi.T) { var it = vmi.T(name); if (it) it.value = val; }
Write(s, type, name, val) ==
  IF ~s.vmi THEN s
  ELSE CASE Accessor(type, name) = "throws" -> Raise(s)
         [] Accessor(type, name) = "item" -> SetValue(s, name, val)
         [] OTHER -> s

\* A faulty fireVmTrigger that does not look at vmi.
fireVmTrigger_Unbound(s, name) ==
  IF name = "" THEN s ELSE Logged(s, Ev("fire", name, 0, Len(s.pend)))
\* fireVmTrigger(name): TRUE iff the trigger was fired.
fireVmTriggerFires(s, name) == name # "" /\ s.vmi /\ HasAccessor("trigger", name)
fireVmTrigger(s, name) ==
  IF name = "" \/ ~s.vmi THEN s
  ELSE Catch(CASE Accessor("trigger", name) = "throws" -> Raise(s)
               [] Accessor("trigger", name) = "item" ->
                    Logged(s, Ev("fire", name, 0, Len(s.pend)))
               [] OTHER -> s)

\* A faulty exact-name setter without its try.
WriteIfOk_Unguarded(s, type, name, c) == IF c.ok THEN Write(s, type, name, c.v) ELSE s
\* if (c ok) try { Write } catch(e){}
WriteIfOk(s, type, name, c) == IF c.ok THEN Catch(Write(s, type, name, c.v)) ELSE s

\* setterUpdateLine(p): the exact-name setter generated for one property.
UpdateLine(s, p, val) ==
  CASE p.type = "trigger" ->
         IF val = JsTrue THEN Catch(fireVmTrigger(s, p.name)) ELSE s
    [] p.type \in {"string", "number", "boolean", "color"} ->
         IF IsNullish(val) THEN s
         ELSE WriteIfOk(s, p.type, p.name, Coerce(p.type, val))
    [] OTHER -> s
setterUpdateLine(s, p, o) == UpdateLine(s, p, Get(o, p.name))

RECURSIVE FastPath(_, _, _)
FastPath(s, i, o) ==
  IF i > Len(vprops) \/ s.exc THEN s
  ELSE FastPath(setterUpdateLine(s, vprops[i], o), i + 1, o)

\* try { if (!done && vmi.T && (it=vmi.T(name))) { it.value = ...; done = true; } }
\* catch(e){} on the pair sd = [s, done].
TryAssign(sd, acc, name, c) ==
  IF sd.done THEN sd
  ELSE CASE acc = "throws" -> [s |-> Catch(Raise(sd.s)), done |-> FALSE]
         [] acc = "item" /\ c.ok -> [s |-> SetValue(sd.s, name, c.v), done |-> TRUE]
         [] OTHER -> sd
TryWrite(sd, type, name, val) ==
  TryAssign(sd, Accessor(type, name), name, Coerce(type, val))

\* A faulty lookup that never consults VM_INDEX.
ResolveName_Exact(k) == k
\* The name the generic loop uses for the key k.
ResolveName(k) ==
  IF VM_TYPES(k) = "" /\ VM_INDEX(toLowerCase(k)) # "" THEN VM_INDEX(toLowerCase(k)) ELSE k

\* setImageFromSource(propName, src): an empty source clears the binding
\* at once; any other is decoded and assigned later, by a promise.
setImageFromSource(s, name, src) ==
  IF ~s.vmi THEN s
  ELSE Catch(CASE Accessor("image", name) = "throws" -> Raise(s)
               [] Accessor("image", name) = "item" /\ src \in {"", "clear", "none"} ->
                    SetValue(s, name, JsNull)
               [] OTHER -> s)

\* The branch of the declared type t.
TypedChain(s, t, name, val) ==
  CASE t \in {"string", "number", "boolean", "color"} ->
         TryWrite([s |-> s, done |-> FALSE], t, name, val)
    [] t = "image" ->
         [s |-> setImageFromSource(s, name, val.v), done |-> TRUE]
    [] t = "trigger" /\ FiresTrigger(val) ->
         [s |-> fireVmTrigger(s, name), done |-> TRUE]
    [] OTHER -> [s |-> s, done |-> FALSE]

\* Unknown type: try the setters in turn, then the trigger.
ProbeTrigger(sd, name, val) ==
  IF ~sd.done /\ FiresTrigger(val) THEN Catch(fireVmTrigger(sd.s, name)) ELSE sd.s
\* try { if (!done && vmi.image) { var test=vmi.image(name); if (test) {...} } }
TryImage(sd, name, val) ==
  IF sd.done THEN sd
  ELSE CASE Accessor("image", name) = "throws" -> [s |-> Catch(Raise(sd.s)), done |-> FALSE]
         [] Accessor("image", name) = "item" ->
              [s |-> setImageFromSource(sd.s, name, val.v), done |-> TRUE]
         [] OTHER -> sd
Probe(sd, name, val) ==
  IF sd.done THEN sd.s
  ELSE ProbeTrigger(TryImage(TryWrite(TryWrite(TryWrite(TryWrite(sd,
         "string", name, val), "number", name, val),
         "boolean", name, val), "color", name, val), name, val), name, val)

\* One iteration of the generic, case-insensitive loop of apply.
GenericName(s, name, val) == Probe(TypedChain(s, VM_TYPES(name), name, val), name, val)
GenericKey(s, k, val) == GenericName(s, ResolveName(k), val)

RECURSIVE GenericLoop(_, _, _)
GenericLoop(s, i, o) ==
  IF i > Len(o) \/ s.exc THEN s
  ELSE GenericLoop(GenericKey(s, o[i].k, o[i].v), i + 1, o)

\* The generic loop of apply, inside its try.
GenericPass(s, o) == IF s.exc THEN s ELSE Catch(GenericLoop(s, 1, o))

\* apply(o); id names the update call the mapping came from.
apply(s, o, id) ==
  IF ~s.vmi THEN s
  ELSE GenericPass(FastPath(Logged(s, Ev("apply", "", id, Len(s.pend))), 1, o), o)

\* __doPlayNow(): r.play(), then the configured enter trigger.
FireEnter(s) == IF cfg.in # "" /\ ~s.exc THEN fireVmTrigger(s, cfg.in) ELSE s
\* A faulty __doPlayNow that calls r.play() outside any try.
__doPlayNow_Unguarded(s) == FireEnter(RuntimeCall(s, "rplay"))
__doPlayNow(s) == FireEnter(Catch(RuntimeCall(s, "rplay")))

\* ------------------------------------------------------------- parsing
\* The text of a string update, as its tokens [c, s, x].  c is the kind:
\*   "{" "}" ":" ","   punctuation
\*   "str"     a double-quoted string literal with content s
\*   "strbrk"  the same, with a bare line break inside (s holds it as \n)
\*   "word"    an unquoted word s (true, false, null, a number, or junk)
\*   "q" "sq"  a lone double / single quote
\*   "nl"      a line break between tokens;  "esc" the two characters \n
\*   "bom"     U+FEFF
\*   "<"       an XML tag;  "<cd" a componentData element with id s whose
\*             data value is x
\*   A componentData element also has a (its own value attribute), v (the
\*   text of its <value> child), d (it has a <data> child) and t (the text
\*   of that child).
Tok(c, s) == [c |-> c, s |-> s, x |-> "", a |-> "", v |-> "", d |-> FALSE, t |-> ""]
StrTok(s) == Tok("str", s)
Component(id, a, v, d, x, t) ==
  [c |-> "<cd", s |-> id, x |-> x, a |-> a, v |-> v, d |-> d, t |-> t]
ComponentData(id, value) == Component(id, "", "", TRUE, value, "")

IsSpaceTok(tk) == tk.c \in {"nl", "bom"}
NotLineBreak(tk) == tk.c # "nl"

\* String(s||'').replace(/^\uFEFF/, '').trim()
RECURSIVE TrimLeft(_)
TrimLeft(toks) ==
  IF Len(toks) > 0 /\ IsSpaceTok(toks[1]) THEN TrimLeft(Tail(toks)) ELSE toks
RECURSIVE TrimRight(_)
TrimRight(toks) ==
  IF Len(toks) > 0 /\ IsSpaceTok(toks[Len(toks)])
  THEN TrimRight(SubSeq(toks, 1, Len(toks) - 1))
  ELSE toks
stripBomAndTrim(toks) == TrimRight(TrimLeft(toks))

\* unwrapIfQuoted(s): drops the first and the last character when both are
\* the same quote.  A string literal that loses its outer quote leaves its
\* content as a word next to a lone quote.
OpensWithQuote(tk) == tk.c \in {"q", "str", "strbrk"}
unwrapIfQuoted(toks) ==
  LET n == Len(toks) IN
  IF n = 0 THEN toks
  ELSE IF n >= 2 /\ toks[1].c = "sq" /\ toks[n].c = "sq" THEN SubSeq(toks, 2, n - 1)
  ELSE IF OpensWithQuote(toks[1]) /\ OpensWithQuote(toks[n])
       THEN IF n = 1
            THEN IF toks[1].c = "q" THEN toks ELSE << Tok("word", toks[1].s) >>
            ELSE (IF toks[1].c = "q" THEN <<>> ELSE << Tok("word", toks[1].s), Tok("q", "") >>)
                 \o SubSeq(toks, 2, n - 1)
                 \o (IF toks[n].c = "q" THEN <<>> ELSE << Tok("q", ""), Tok("word", toks[n].s) >>)
       ELSE toks

\* escapeBareNewlinesInJson(s): every line break becomes backslash-n.
EscapeTok(tk) ==
  CASE tk.c = "nl" -> Tok("esc", "")
    [] tk.c = "strbrk" -> Tok("str", tk.s)
    [] OTHER -> tk
escapeBareNewlinesInJson(toks) == [i \in 1..Len(toks) |-> EscapeTok(toks[i])]

\* JSON.parse of a scalar token.
IsJsonWord(tk) ==
  tk.c = "word" /\ (tk.s \in {"true", "false", "null"}
                    \/ (tk.s # "" /\ NumberOfString(tk.s).fin))
IsJsonScalar(tk) == tk.c = "str" \/ IsJsonWord(tk)
ScalarValue(tk) ==
  CASE tk.c = "str" -> Str(tk.s)
    [] tk.s = "true" -> JsTrue
    [] tk.s = "false" -> JsFalse
    [] tk.s = "null" -> JsNull
    [] OTHER -> Num(NumberOfString(tk.s))

\* JSON.parse of a value that holds objects or arrays: the value that
\* starts at ts[i] and the position after it.  An object is its member
\* list m, an array its element list m.
Failed == [ok |-> FALSE, val |-> JsNull, next |-> 0]
Parsed(val, next) == [ok |-> TRUE, val |-> val, next |-> next]
ObjectValue(m) == [t |-> "object", v |-> "[object Object]", m |-> m]
ArrayValue(m) == [t |-> "array", v |-> "", m |-> m]
RECURSIVE ParseValue(_, _)
RECURSIVE ParseMembers(_, _, _)
RECURSIVE ParseElements(_, _, _)
AfterMember(ts, k, r, acc) ==
  IF ~r.ok \/ r.next > Len(ts) THEN Failed
  ELSE IF ts[r.next].c = "}" THEN Parsed(ObjectValue(Append(acc, [k |-> k, v |-> r.val])), r.next + 1)
  ELSE IF ts[r.next].c = "," THEN ParseMembers(ts, r.next + 1, Append(acc, [k |-> k, v |-> r.val]))
  ELSE Failed
ParseMembers(ts, i, acc) ==
  IF i + 2 > Len(ts) \/ ts[i].c # "str" \/ ts[i + 1].c # ":" THEN Failed
  ELSE AfterMember(ts, ts[i].s, ParseValue(ts, i + 2), acc)
AfterElement(ts, r, acc) ==
  IF ~r.ok \/ r.next > Len(ts) THEN Failed
  ELSE IF ts[r.next].c = "]" THEN Parsed(ArrayValue(Append(acc, r.val)), r.next + 1)
  ELSE IF ts[r.next].c = "," THEN ParseElements(ts, r.next + 1, Append(acc, r.val))
  ELSE Failed
ParseElements(ts, i, acc) == AfterElement(ts, ParseValue(ts, i), acc)
ParseValue(ts, i) ==
  IF i > Len(ts) THEN Failed
  ELSE IF IsJsonScalar(ts[i]) THEN Parsed(ScalarValue(ts[i]), i + 1)
  ELSE IF ts[i].c = "{"
       THEN IF i < Len(ts) /\ ts[i + 1].c = "}"
            THEN Parsed(ObjectValue(<<>>), i + 2)
            ELSE ParseMembers(ts, i + 1, <<>>)
  ELSE IF ts[i].c = "["
       THEN IF i < Len(ts) /\ ts[i + 1].c = "]"
            THEN Parsed(ArrayValue(<<>>), i + 2)
            ELSE ParseElements(ts, i + 1, <<>>)
  ELSE Failed
\* The result for a text that is one such value.  A top-level array has no
\* key any property answers to, so it stands as a value with no members.
NestedParsed(r, n) ==
  IF r.ok /\ r.next = n + 1
  THEN [ok |-> TRUE, obj |-> r.val.t = "object",
        o |-> IF r.val.t = "object" THEN r.val.m ELSE <<>>]
  ELSE [ok |-> FALSE, obj |-> FALSE, o |-> <<>>]

\* JSON.parse(s): ok = FALSE when it throws, obj = TRUE for an object with
\* members o.
IsMemberList(ts) ==
  /\ Len(ts) % 4 = 3
  /\ \A i \in 1..Len(ts) :
       CASE i % 4 = 1 -> ts[i].c = "str"
         [] i % 4 = 2 -> ts[i].c = ":"
         [] i % 4 = 3 -> IsJsonScalar(ts[i])
         [] OTHER     -> ts[i].c = ","
Members(ts) == [j \in 1..((Len(ts) + 1) \div 4) |->
                  [k |-> ts[4 * j - 3].s, v |-> ScalarValue(ts[4 * j - 1])]]
JSONparse(toks) ==
  LET ts == SelectSeq(toks, NotLineBreak)
      n  == Len(ts)
  IN  IF n = 1 /\ IsJsonScalar(ts[1])
      THEN [ok |-> TRUE, obj |-> FALSE, o |-> <<>>]
      ELSE IF n >= 2 /\ ts[1].c = "{" /\ ts[n].c = "}"
              /\ (n = 2 \/ IsMemberList(SubSeq(ts, 2, n - 1)))
      THEN [ok |-> TRUE, obj |-> TRUE,
            o |-> IF n = 2 THEN <<>> ELSE Members(SubSeq(ts, 2, n - 1))]
      ELSE NestedParsed(ParseValue(ts, 1), n)

\* o.k of a parsed value, a || b, and String(val).
Field(val, k) == IF val.t = "object" /\ HasKey(val.m, k) THEN Get(val.m, k) ELSE Undefined
Truthy(val) ==
  CASE val.t \in {"object", "array"} -> TRUE
    [] val.t = "string" -> val.v # ""
    [] val.t = "number" -> val.v \notin {"0", "NaN"}
    [] val.t = "boolean" -> val.v = "true"
    [] OTHER -> FALSE
OrElse(a, b) == IF Truthy(a) THEN a ELSE b
\* it.data && (it.data.value != null ? it.data.value : it.data.text)
DataOf(d) ==
  IF ~Truthy(d) THEN d
  ELSE IF ~IsNullish(Field(d, "value")) THEN Field(d, "value") ELSE Field(d, "text")
\* (it.data && ...) || it.value || ''
ComponentValue(it) == OrElse(OrElse(DataOf(Field(it, "data")), Field(it, "value")), Str(""))
\* it.id || it.componentId || it.name
ComponentId(it) == OrElse(OrElse(Field(it, "id"), Field(it, "componentId")), Field(it, "name"))
\* map[id] = String(val)
Put(map, k, val) ==
  IF HasKey(map, k)
  THEN [i \in 1..Len(map) |-> IF map[i].k = k THEN [k |-> k, v |-> val] ELSE map[i]]
  ELSE Append(map, [k |-> k, v |-> val])
PutComponent(map, it) ==
  IF Truthy(ComponentId(it)) THEN Put(map, ComponentId(it).v, Str(ComponentValue(it).v)) ELSE map
RECURSIVE ComponentMap(_, _, _)
ComponentMap(arr, i, map) ==
  IF i > Len(arr) THEN map ELSE ComponentMap(arr, i + 1, PutComponent(map, arr[i]))
\* td.componentData || td.componentdata || [], as the elements the loop
\* visits (a value that is no array has none with an id).
Components(td) ==
  OrElse(OrElse(Field(td, "componentData"), Field(td, "componentdata")), ArrayValue(<<>>))
Elements(arr) == IF arr.t = "array" THEN arr.m ELSE <<>>
Flattened(o, td) ==
  IF Truthy(td) THEN ComponentMap(Elements(Components(td)), 1, <<>>) ELSE o

\* A faulty normalisation that takes every object for a flat map.
normalizeCasparJsonObject_Flat(parsed) == IF parsed.obj THEN parsed.o ELSE <<>>
\* normalizeCasparJsonObject(o): the componentData of templateData as a
\* flat map, a map without templateData as it is, and {} for anything
\* that is no object.
normalizeCasparJsonObject(parsed) ==
  IF ~parsed.obj THEN <<>>
  ELSE Flattened(parsed.o, OrElse(Field(ObjectValue(parsed.o), "templateData"),
                                  Field(ObjectValue(parsed.o), "templatedata")))

\* The last resort of parseCasparJsonLenient: line breaks become spaces,
\* then every "key":"value" pair of string literals is collected.
BreaksToSpaces(s) ==
  Lit([i \in 1..Len(Chars(s)) |-> IF Chars(s)[i] = "\n" THEN " " ELSE Chars(s)[i]])
SpaceTok(tk) == IF tk.c = "strbrk" THEN Tok("str", BreaksToSpaces(tk.s)) ELSE tk
RECURSIVE ScrapeFrom(_, _)
ScrapeFrom(ts, i) ==
  IF i + 2 > Len(ts) THEN <<>>
  ELSE IF ts[i].c = "str" /\ ts[i].s # "" /\ ts[i + 1].c = ":" /\ ts[i + 2].c = "str"
       THEN << [k |-> ts[i].s, v |-> Str(ts[i + 2].s)] >> \o ScrapeFrom(ts, i + 3)
       ELSE ScrapeFrom(ts, i + 1)
ScrapeSpaced(ts) == ScrapeFrom([i \in 1..Len(ts) |-> SpaceTok(ts[i])], 1)
WordAsString(tk) == IF tk.c = "word" THEN Tok("str", tk.s) ELSE tk
\* A faulty scrape that also accepts unquoted values.
Scrape_Unquoted(toks) ==
  ScrapeFrom([i \in 1..Len(toks) |-> WordAsString(toks[i])], 1)
Scrape(toks) == ScrapeSpaced(SelectSeq(toks, NotLineBreak))

\* parseCasparJsonLenient(raw) for a string: strict, then unwrapped and
\* escaped, then the scrape.
Repaired(toks) == escapeBareNewlinesInJson(unwrapIfQuoted(stripBomAndTrim(toks)))
FirstParsed(strict, repaired, toks) ==
  IF strict.ok THEN normalizeCasparJsonObject(strict)
  ELSE IF repaired.ok THEN normalizeCasparJsonObject(repaired)
  ELSE Scrape(toks)
parseCasparJsonLenient(toks) ==
  FirstParsed(JSONparse(toks), JSONparse(Repaired(toks)), toks)

\* parseTemplateDataXml(raw): id -> value of every componentData element.
IsComponentData(tk) == tk.c = "<cd" /\ tk.s # ""
\* dataEl ? (dataEl.getAttribute('value') || dataEl.textContent || '')
\*        : textByTag(n, 'value')
XmlValue(n) == IF n.d THEN (IF n.x # "" THEN n.x ELSE n.t) ELSE n.v
parseTemplateDataXml(toks) ==
  LET nodes == SelectSeq(toks, IsComponentData) IN
  [i \in 1..Len(nodes) |-> [k |-> nodes[i].s, v |-> Str(XmlValue(nodes[i]))]]

\* The object __realUpdate obtains from the raw argument of the call u.
ParseText(s) ==
  IF Len(s) > 0 /\ s[1].c \in {"<", "<cd"}
  THEN parseTemplateDataXml(s)
  ELSE parseCasparJsonLenient(s)
ParsedObject(u) ==
  IF u.str THEN ParseText(stripBomAndTrim(u.toks))
  ELSE normalizeCasparJsonObject([ok |-> TRUE, obj |-> TRUE, o |-> u.o])

\* if (__firstPlayPending){ ...; clearTimeout(__firstPlayTimer); __doPlayNow(); }
ReleaseHeldPlay(s) ==
  IF s.fpp /\ ~s.exc
  THEN __doPlayNow([s EXCEPT !.fpp = FALSE, !.fpt = FALSE,
                             !.ts = IF s.fpt THEN FALSE ELSE @])
  ELSE s
ReleaseHeldPlay_KeepsTimer(s) ==
  IF s.fpp /\ ~s.exc THEN __doPlayNow([s EXCEPT !.fpp = FALSE]) ELSE s
\* A faulty handler that never records that an update was applied.
Updated_Never(s) == s
Updated(s) == IF s.exc THEN s ELSE [s EXCEPT !.upd = TRUE]
Queue(s, u, obj) == [s EXCEPT !.pend = Append(@, [u EXCEPT !.o = obj])]

\* A faulty __realUpdate that returns without queueing while vmi is null.
__realUpdate_DropsWhenUnbound(s, u) ==
  IF u.isNull \/ ~s.vmi THEN s
  ELSE ReleaseHeldPlay(Updated(apply(s, ParsedObject(u), u.id)))

\* A faulty __realUpdate that releases the held play without clearTimeout.
__realUpdate_KeepsTimer(s, u) ==
  IF u.isNull THEN s
  ELSE IF ~s.vmi THEN Queue(s, u, ParsedObject(u))
  ELSE ReleaseHeldPlay_KeepsTimer(Updated(apply(s, ParsedObject(u), u.id)))

\* __realUpdate(raw), the whole body inside try { } catch(e){ }.
__realUpdate(s, u) ==
  Catch(IF u.isNull THEN s
        ELSE IF ~s.vmi THEN Queue(s, u, ParsedObject(u))
        ELSE ReleaseHeldPlay(Updated(apply(s, ParsedObject(u), u.id))))

\* The value a baked default assigns; the boolean is String(v).toLowerCase()
\* === "true".
BakedValue(type, value) ==
  IF type = "boolean"
  THEN [ok |-> TRUE, v |-> Bool(toLowerCase(value.v) = "true")]
  ELSE Coerce(type, value)

\* bakeDefaultLine(name, value): TRUE iff the generated line executes a
\* return, which leaves applyBakedDefaults as a whole.
bakeDefaultLineReturns(name) ==
  \E type \in {"string", "number", "boolean", "color"} : HasAccessor(type, name)
SetIfOk(s, name, c) == IF c.ok THEN SetValue(s, name, c.v) ELSE s
bakeDefaultLine(s, name, value) ==
  IF name \in cfg.throws THEN Catch(Raise(s))
  ELSE IF bakeDefaultLineReturns(name)
       THEN SetIfOk(s, name, BakedValue(RuntimeType(name), value))
       ELSE s

RECURSIVE BakedLines(_, _)
BakedLines(s, i) ==
  IF i > Len(cfg.vmDefaults) \/ s.exc THEN s
  ELSE LET d == cfg.vmDefaults[i] IN
       IF bakeDefaultLineReturns(d.k) THEN bakeDefaultLine(s, d.k, d.v)
       ELSE BakedLines(bakeDefaultLine(s, d.k, d.v), i + 1)

applyBakedDefaults(s) ==
  IF ~s.vmi \/ Len(cfg.vmDefaults) = 0 THEN s
  ELSE Catch(BakedLines(Logged(s, Ev("baked", "", 0, Len(s.pend))), 1))

\* The value a URL parameter assigns; the boolean also accepts "1".
UrlValue(type, value) ==
  IF type = "boolean"
  THEN [ok |-> TRUE, v |-> Bool(toLowerCase(value.v) = "true" \/ value.v = "1"
                                 \/ toLowerCase(value.v) = "yes")]
  ELSE Coerce(type, value)

\* setterLine(p): the URL setter generated for one property (key vm.<name>).
UrlLine(s, p, v) ==
  CASE p.type \in {"string", "number", "boolean", "color"} ->
         IF IsNullish(v) THEN s
         ELSE WriteIfOk(s, p.type, p.name, UrlValue(p.type, v))
    [] p.type = "trigger" ->
         IF v = Str("true") \/ v = Str("1") THEN Catch(fireVmTrigger(s, p.name)) ELSE s
    [] OTHER -> s
setterLine(s, p) == UrlLine(s, p, Get(cfg.url, p.name))

RECURSIVE UrlSetters(_, _)
UrlSetters(s, i) ==
  IF i > Len(vprops) \/ s.exc THEN s
  ELSE UrlSetters(setterLine(s, vprops[i]), i + 1)

\* The params.forEach fallback of applyFromUrl, for one vm.<name> pair.
UrlGeneric(s, name, value) ==
  IF name \in cfg.throws THEN Catch(Raise(s))
  ELSE IF bakeDefaultLineReturns(name)
       THEN SetIfOk(s, name, UrlValue(RuntimeType(name), value))
  ELSE IF HasAccessor("image", name) THEN setImageFromSource(s, name, value.v)
  ELSE IF HasAccessor("trigger", name) /\ (value.v = "true" \/ value.v = "1")
       THEN fireVmTrigger(s, name)
  ELSE s

RECURSIVE UrlForEach(_, _)
UrlForEach(s, i) ==
  IF i > Len(cfg.url) \/ s.exc THEN s
  ELSE UrlForEach(UrlGeneric(s, cfg.url[i].k, cfg.url[i].v), i + 1)

applyFromUrl(s) ==
  IF ~s.vmi THEN s
  ELSE UrlForEach(UrlSetters(
         IF Len(cfg.url) = 0 THEN s ELSE Logged(s, Ev("url", "", 0, Len(s.pend))), 1), 1)

\* boot.onLoad: the drain of the early stub's queue.
RECURSIVE DrainEarly(_, _, _)
DrainEarly(s, q, i) ==
  IF i > Len(q) \/ s.exc THEN s
  ELSE DrainEarly(__realUpdate(s, q[i]), q, i + 1)

RECURSIVE ApplyAll(_, _, _)
ApplyAll(s, q, j) ==
  IF j > Len(q) \/ s.exc THEN s
  ELSE ApplyAll(apply(s, q[j].o, q[j].id), q, j + 1)

\* A faulty drain that leaves the applied updates in the queue.
Drained_KeepsQueue(s) == IF s.exc THEN s ELSE [s EXCEPT !.upd = TRUE]
\* boot.onLoad: the drain of __pendingUpdates.
Drained(s) == IF s.exc THEN s ELSE [s EXCEPT !.pend = <<>>, !.upd = TRUE]
DrainPending(s) ==
  IF Len(s.pend) > 0 THEN Drained(ApplyAll(s, s.pend, 1)) ELSE s

\* A faulty onLoad that reads the URL values after draining the queues.
onLoad_UrlLast(s, hasViewModel) ==
  Catch(applyFromUrl(Catch(DrainPending(Catch(DrainEarly(Catch(applyBakedDefaults(
    Logged([s EXCEPT !.vmi = hasViewModel], Ev("load", "", 0, Len(s.pend))))), earlyQ, 1))))))

\* A faulty onLoad that drains __pendingUpdates before the stub's queue.
onLoad_PendingFirst(s, hasViewModel) ==
  Catch(DrainEarly(Catch(DrainPending(Catch(applyFromUrl(Catch(applyBakedDefaults(
    Logged([s EXCEPT !.vmi = hasViewModel], Ev("load", "", 0, Len(s.pend))))))))), earlyQ, 1))

\* boot.onLoad with r.viewModelInstance present or absent; every phase
\* runs in a try of its own.
onLoad(s, hasViewModel) ==
  Catch(DrainPending(Catch(DrainEarly(Catch(applyFromUrl(Catch(applyBakedDefaults(
    Logged([s EXCEPT !.vmi = hasViewModel], Ev("load", "", 0, Len(s.pend))))))), earlyQ, 1))))

\* ------------------------------------------------------------- inputs
Entry(k, s) == [k |-> k, v |-> Str(s)]
Payloads == { << Entry("Title", "a") >>,
              << Entry("Title", "b"), Entry("Sub", "c") >> }

\* One update call: its raw argument (a flat object o, the tokens of a
\* string, or null), with the call's number and the handler that received
\* it ("stub" or "real").
Update(id, via, o) ==
  [id |-> id, via |-> via, isNull |-> FALSE, str |-> FALSE, o |-> o, toks |-> <<>>]
NullUpdate(id, via) ==
  [id |-> id, via |-> via, isNull |-> TRUE, str |-> FALSE, o |-> <<>>, toks |-> <<>>]
StringUpdate(id, via, toks) ==
  [id |-> id, via |-> via, isNull |-> FALSE, str |-> TRUE, o |-> <<>>, toks |-> toks]
Object(o) == Update(0, "", o)
Text(toks) == StringUpdate(0, "", toks)
KV(k, val) == [k |-> k, v |-> val]

\* buildTemplate options (casparTriggers, vmDefaults), the vm.<Name> pairs
\* of the page URL, the runtime members that throw, and the name of the
\* data the host sends in this run.
Config(trig, baked, url) ==
  [in |-> IF trig THEN "IN" ELSE "", out |-> IF trig THEN "OUT" ELSE "",
   next |-> IF trig THEN "NEXT" ELSE "", vmDefaults |-> baked, url |-> url,
   throws |-> {}, data |-> "flat"]
Configs == { Config(TRUE,  << Entry("Ghost", "g"), Entry("Title", "k"), Entry("Sub", "s") >>,
                           << Entry("Title", "u") >>),
             Config(FALSE, << Entry("Title", "k"), Entry("Sub", "s") >>, <<>>) }

\* Payloads that exercise name resolution and the typed setters.
TitleWorld == Object(<< KV("Title", Str("World")) >>)
LowerCaseKeys == Object(<< KV("title", Str("World")), KV("count", Str("5")),
                           KV("show", Str("yes")) >>)
UndeclaredKey == Object(<< KV("Extra", Str("x")) >>)
UnknownKey == Object(<< KV("Bogus", Str("true")) >>)
NamePayloads == {TitleWorld, LowerCaseKeys, UndeclaredKey, UnknownKey}
BooleanInputs == {JsTrue, JsNumber("1"), Str("true"), Str("TRUE"), Str("1"), Str("yes"),
                  Str("Yes"), Str("no"), JsFalse, JsNumber("0"), Str(""), JsNull}
TriggerInputs == {JsTrue, Str("true"), Str("1"), JsNumber("1"), JsFalse, Str("yes")}
ColorInputs == {Str("#FF8800"), JsNumber("16755200"), JsNumber("16746496"),
                Str("#80FF8800"), Str("red")}
MixedPayload == Object(<< KV("Title", Str("World")), KV("Count", JsNumber("5")),
                          KV("Show", JsTrue) >>)

\* String updates: well-formed JSON, JSON inside single quotes, JSON cut
\* short, CasparCG XML, and texts no recovery step can read.
JsonText == Text(<< Tok("{", ""), StrTok("Title"), Tok(":", ""), StrTok("World"), Tok("}", "") >>)
QuotedJsonText == Text(<< Tok("sq", "") >> \o JsonText.toks \o << Tok("sq", "") >>)
CutJsonText == Text(<< Tok("bom", ""), Tok("{", ""), Tok("nl", ""), StrTok("Title"),
                       Tok(":", ""), Tok("strbrk", "a\nb") >>)
XmlText == Text(<< Tok("<", ""), ComponentData("Title", "World"), Tok("<", "") >>)
ParsableTexts == {JsonText, QuotedJsonText, CutJsonText, XmlText}
UnparsableTexts == { Text(<< Tok("word", "x") >>),
                     Text(<< Tok("{", ""), StrTok("Title"), Tok(":", ""), Tok("word", "World"), Tok("}", "") >>),
                     Text(<< Tok("{", ""), StrTok("Show"), Tok(":", ""), Tok("word", "true") >>),
                     Text(<<>>) }

\* The content {Title: "World"} in every encoding a host may use.
NestedJsonText ==
  Text(<< Tok("{", ""), StrTok("templateData"), Tok(":", ""), Tok("{", ""),
          StrTok("componentData"), Tok(":", ""), Tok("[", ""), Tok("{", ""),
          StrTok("id"), Tok(":", ""), StrTok("Title"), Tok(",", ""),
          StrTok("data"), Tok(":", ""), Tok("{", ""), StrTok("value"), Tok(":", ""),
          StrTok("World"), Tok("}", ""), Tok("}", ""), Tok("]", ""), Tok("}", ""),
          Tok("}", "") >>)
NestedObject ==
  Object(<< KV("templatedata", ObjectValue(<< KV("componentdata",
              ArrayValue(<< ObjectValue(<< KV("componentId", Str("Title")),
                                           KV("value", Str("World")) >>) >>)) >>)) >>)
SpacedJsonText ==
  Text(<< Tok("bom", ""), Tok("{", ""), Tok("nl", ""), StrTok("Title"), Tok(":", ""),
          StrTok("World"), Tok("nl", ""), Tok("}", ""), Tok("nl", "") >>)
QuotedSpacedJsonText ==
  Text(<< Tok("sq", ""), Tok("{", ""), Tok("nl", ""), StrTok("Title"), Tok(":", ""),
          StrTok("World"), Tok("}", ""), Tok("sq", "") >>)
Encodings == {TitleWorld, JsonText, NestedJsonText, NestedObject, QuotedJsonText,
              SpacedJsonText, QuotedSpacedJsonText, XmlText}

\* XML whose one componentData element (id Title) carries any of: its own
\* value attribute, a <value> child, a <data> child with a value attribute.
XmlInputs ==
  { Text(<< Tok("<", ""), Component("Title", a, v, d, x, ""), Tok("<", "") >>) :
      a \in {"", "a"}, v \in {"", "b"}, d \in BOOLEAN, x \in {"", "c"} }

\* Keys the schema does not declare, for the probing of every accessor.
ProbeInputs == { Object(<< KV("Any", Str(v)) >>) : v \in {"5", "true", "#FF8800"} }
               \cup { Object(<< KV("Pic", Str("none")) >>) }
\* The accessors that throw, along the order of the probing.
ProbeThrows == { {}, {"vmi.string"}, {"vmi.string", "vmi.number"},
                 {"vmi.string", "vmi.number", "vmi.boolean"},
                 {"vmi.string", "vmi.number", "vmi.boolean", "vmi.color"} }

\* The raw arguments of the data named d.
InputsOf(d) ==
  CASE d = "flat"       -> { Object(o) : o \in Payloads } \cup { NullUpdate(0, "") }
    [] d = "names"      -> NamePayloads
    [] d = "texts"      -> ParsableTexts
    [] d = "unreadable" -> UnparsableTexts \cup {JsonText}
    [] d = "colors"     -> { Object(<< KV("Tint", v) >>) : v \in ColorInputs }
    [] d = "booleans"   -> { Object(<< KV("Show", v) >>) : v \in BooleanInputs }
    [] d = "triggers"   -> { Object(<< KV("IN", v) >>) : v \in TriggerInputs }
    [] d = "mixed"      -> {MixedPayload, NullUpdate(0, "")}
    [] d = "encodings"  -> Encodings
    [] d = "urls"       -> { Object(cfg.url) }
    [] d = "probes"     -> ProbeInputs
    [] d = "xml"        -> XmlInputs
\* The raw arguments the host uses in this run.
RawInputs(id, via) == { [r EXCEPT !.id = id, !.via = via] : r \in InputsOf(cfg.data) }

AllThrow == {"rplay", "rstop", "cleanup", "IN", "OUT", "NEXT",
             "Title", "Sub", "Count", "Show", "Tint"}
TypedConfig(data, throws) ==
  [Config(FALSE, <<>>, <<>>) EXCEPT !.data = data, !.throws = throws]
\* Pages opened with one vm.<Name>=<value> pair in the URL, whose host
\* then sends the same pair as an update.
UrlCases == { <<"Title", "World">>, <<"Count", "5">>, <<"Count", "x">>,
              <<"Show", "true">>, <<"Show", "1">>, <<"Show", "yes">>, <<"Show", "no">>,
              <<"Tint", "#FF8800">>, <<"Tint", "16746496">>,
              <<"IN", "true">>, <<"IN", "1">>, <<"IN", "yes">> }
UrlConfigs ==
  { [TypedConfig("urls", {}) EXCEPT !.url = << Entry(c[1], c[2]) >>] : c \in UrlCases }
TypedConfigs ==
  { TypedConfig(d, {}) : d \in {"names", "texts", "unreadable", "colors", "booleans", "triggers",
                                    "encodings", "xml"} }
  \cup UrlConfigs
  \cup { TypedConfig("probes", t) : t \in ProbeThrows }
  \cup { TypedConfig("mixed", {"Count"}),
         [Config(TRUE, << Entry("Title", "k"), Entry("Sub", "s") >>, << Entry("Sub", "u") >>)
            EXCEPT !.data = "mixed", !.throws = AllThrow] }

\* The number of calls the host makes in a run.
OpLimit == IF cfg.data = "flat" THEN MaxOps ELSE MaxTypedOps

\* What the runtime holds for a property nobody has written.
RuntimeDefault == Str("")
DefaultOf(name) ==
  CASE RuntimeType(name) \in {"string", "any"} -> RuntimeDefault
    [] RuntimeType(name) = "boolean" -> JsFalse
    [] RuntimeType(name) = "image"   -> [t |-> "object", v |-> "image"]
    [] OTHER -> JsNumber("0")

\* ---------------------------------------------------------------- state
\* The handler returns; an exception still propagating reaches the host.
Commit(s) ==
  /\ vmi' = s.vmi
  /\ vals' = s.vals
  /\ log' = IF s.exc THEN Append(s.log, Ev("throw", "", 0, Len(s.pend))) ELSE s.log
  /\ __pendingUpdates' = s.pend
  /\ __hasUpdatedOnce' = s.upd
  /\ __firstPlayPending' = s.fpp
  /\ __firstPlayTimer' = s.fpt
  /\ timerScheduled' = s.ts

\* An absent artboard or state machine (null), and { name: n }.
None == [some |-> FALSE, name |-> "", stateMachines |-> <<>>]
Named(n) == [some |-> TRUE, name |-> n, stateMachines |-> <<>>]
NoSchema == [artboard |-> "", stateMachine |-> "", viewModelProps |-> <<>>]
\* No buildSchema call is in progress; buildTemplate has not been called.
Idle == [phase |-> "idle", artboard |-> "", stateMachine |-> "", info |-> FALSE,
         ab |-> None, sm |-> None, instance |-> "none", outcome |-> "none",
         schema |-> NoSchema]
NoDocument == [made |-> FALSE]

\* The editor page after wire(): no file, empty selects, disabled buttons,
\* nothing awaited, nothing downloaded.
MaxAppOps == 5
NoFile == 0
AppFiles == {1, 2}
\* What inspectContents reports of each file: state machines by artboard.
AppContents(f) ==
  IF f = 1 THEN [a \in {"A"} |-> {"S"}]
  ELSE IF f = 2 THEN [a \in {"A", "B"} |-> IF a = "A" THEN {"S"} ELSE {"T"}]
  ELSE [a \in {} |-> {}]
\* A schema as the page tells schemas apart: the blob and the names that
\* buildSchema was called with; the null schema has no blob.
AppSchema(f, ab, sm) == [file |-> f, ab |-> ab, sm |-> sm]
NullSchema == AppSchema(NoFile, "", "")
NoDownload == [made |-> FALSE, schema |-> NullSchema, file |-> NoFile, ab |-> "", sm |-> "",
               embed |-> FALSE, riv |-> NoFile]
Wired ==
  [file |-> NoFile, blobURL |-> NoFile, contents |-> NoFile, schema |-> NullSchema,
   artSel |-> "", smSel |-> "", smOptions |-> {}, btnHtml |-> FALSE,
   inspecting |-> <<>>, building |-> <<>>, encoding |-> <<>>,
   download |-> NoDownload, ops |-> 0]

\* The page after the early stub's script element has run.
Booted ==
  /\ scriptLoaded = FALSE
  /\ loaded = FALSE
  /\ vmi = FALSE
  /\ cleaned = FALSE
  /\ earlyQ = <<>>
  /\ __pendingUpdates = <<>>
  /\ __hasUpdatedOnce = FALSE
  /\ __firstPlayPending = FALSE
  /\ __firstPlayTimer = FALSE
  /\ timerScheduled = FALSE
  /\ vals = [n \in RuntimeProps |-> DefaultOf(n)]
  /\ log = <<>>
  /\ sent = <<>>
  /\ nUpdates = 0
  /\ nCalls = 0
  /\ clock = 0
  /\ timeouts = {}
  /\ ranAt = <<>>
  /\ job = Idle
  /\ built = NoDocument
  /\ app = Wired

Init == cfg \in Configs /\ Booted
TypedInit == cfg \in TypedConfigs /\ Booted

\* The stub's window.update: q.push(['update', payload]).
StubUpdate ==
  /\ ~scriptLoaded
  /\ nUpdates + nCalls < OpLimit
  /\ \E u \in RawInputs(nUpdates + 1, "stub") :
       /\ earlyQ' = Append(earlyQ, u)
       /\ sent' = Append(sent, u)
       /\ log' = Append(log, Ev("recv", "stub", u.id, Len(__pendingUpdates)))
  /\ nUpdates' = nUpdates + 1
  /\ UNCHANGED <<cfg, scriptLoaded, loaded, vmi, cleaned, __pendingUpdates,
                 __hasUpdatedOnce, __firstPlayPending, __firstPlayTimer,
                 timerScheduled, vals, nCalls>>
  /\ UNCHANGED <<obsVars, toolVars>>

\* The main script runs: boot() constructs the runtime, the handlers
\* replace the stubs.
MainScript ==
  /\ ~scriptLoaded
  /\ scriptLoaded' = TRUE
  /\ UNCHANGED <<cfg, loaded, vmi, cleaned, earlyQ, __pendingUpdates,
                 __hasUpdatedOnce, __firstPlayPending, __firstPlayTimer,
                 timerScheduled, vals, log, sent, nUpdates, nCalls>>
  /\ UNCHANGED <<obsVars, toolVars>>

\* The runtime calls onLoad, with or without a view-model instance.  A
\* runtime that was cleaned up before it loaded does not call back.
OnLoad ==
  /\ scriptLoaded /\ ~loaded /\ ~cleaned
  /\ \E hasViewModel \in BOOLEAN : Commit(onLoad(Cur, hasViewModel))
  /\ loaded' = TRUE
  /\ earlyQ' = <<>>
  /\ UNCHANGED <<cfg, scriptLoaded, cleaned, sent, nUpdates, nCalls>>
  /\ UNCHANGED <<obsVars, toolVars>>

\* window.update / data / SetData after the main script.
RealUpdate ==
  /\ scriptLoaded
  /\ nUpdates + nCalls < OpLimit
  /\ \E u \in RawInputs(nUpdates + 1, "real") :
       /\ sent' = Append(sent, u)
       /\ Commit(__realUpdate(Logged(Cur, Ev("recv", "real", u.id, Len(__pendingUpdates))), u))
  /\ nUpdates' = nUpdates + 1
  /\ UNCHANGED <<cfg, scriptLoaded, loaded, cleaned, earlyQ, nCalls>>
  /\ UNCHANGED <<obsVars, toolVars>>

\* window.play
Play ==
  /\ scriptLoaded
  /\ nUpdates + nCalls < OpLimit
  /\ nCalls' = nCalls + 1
  /\ LET s0 == Logged(Cur, Ev("play", "", 0, Len(__pendingUpdates))) IN
     IF ~__hasUpdatedOnce
     THEN Commit([s0 EXCEPT !.fpp = TRUE,
                            !.fpt = TRUE,
                            !.ts = IF __firstPlayTimer THEN @ ELSE TRUE])
     ELSE Commit(__doPlayNow(s0))
  /\ UNCHANGED <<cfg, scriptLoaded, loaded, cleaned, earlyQ, sent, nUpdates>>
  /\ UNCHANGED <<obsVars, toolVars>>

\* The grace timeout set by window.play expires.
GraceTimer ==
  /\ timerScheduled
  /\ LET s0 == Logged([Cur EXCEPT !.ts = FALSE], Ev("timer", "", 0, Len(__pendingUpdates))) IN
     IF __firstPlayPending
     THEN Commit(__doPlayNow([s0 EXCEPT !.fpp = FALSE]))
     ELSE Commit(s0)
  /\ UNCHANGED <<cfg, scriptLoaded, loaded, cleaned, earlyQ, sent, nUpdates, nCalls>>
  /\ UNCHANGED <<obsVars, toolVars>>

\* window.next
\* A faulty next that fires without looking at the trigger's configuration
\* or the binding.
next_Unchecked(s) == Logged(s, Ev("fire", cfg.next, 0, Len(s.pend)))
next(s) == IF cfg.next # "" THEN fireVmTrigger(s, cfg.next) ELSE s
NextCmd ==
  /\ scriptLoaded
  /\ nUpdates + nCalls < OpLimit
  /\ nCalls' = nCalls + 1
  /\ Commit(next(Logged(Cur, Ev("next", "", 0, Len(__pendingUpdates)))))
  /\ UNCHANGED <<cfg, scriptLoaded, loaded, cleaned, earlyQ, sent, nUpdates>>
  /\ UNCHANGED <<obsVars, toolVars>>

\* A faulty stop that calls r.stop() whether or not the trigger fired.
stop_Both(s) == Catch(RuntimeCall(fireVmTrigger(s, cfg.out), "rstop"))
\* window.stop: the exit trigger, or r.stop() when it did not fire.
stop(s) ==
  IF fireVmTriggerFires(s, cfg.out)
  THEN fireVmTrigger(s, cfg.out)
  ELSE Catch(RuntimeCall(s, "rstop"))
Stop ==
  /\ scriptLoaded
  /\ nUpdates + nCalls < OpLimit
  /\ nCalls' = nCalls + 1
  /\ Commit(stop(Logged(Cur, Ev("stop", "", 0, Len(__pendingUpdates)))))
  /\ UNCHANGED <<cfg, scriptLoaded, loaded, cleaned, earlyQ, sent, nUpdates>>
  /\ UNCHANGED <<obsVars, toolVars>>

\* window.remove
remove(s) == Catch(RuntimeCall(s, "cleanup"))
Remove ==
  /\ scriptLoaded
  /\ nUpdates + nCalls < OpLimit
  /\ nCalls' = nCalls + 1
  /\ cleaned' = TRUE
  /\ Commit(remove(Logged(Cur, Ev("remove", "", 0, Len(__pendingUpdates)))))
  /\ UNCHANGED <<cfg, scriptLoaded, loaded, earlyQ, sent, nUpdates>>
  /\ UNCHANGED <<obsVars, toolVars>>

Next ==
  \/ StubUpdate
  \/ MainScript
  \/ OnLoad
  \/ RealUpdate
  \/ Play
  \/ GraceTimer
  \/ NextCmd
  \/ Stop
  \/ Remove

Spec == Init /\ [][Next]_vars

\* The page's event loop runs a timeout that is due.
FairSpec == Spec /\ WF_vars(GraceTimer)

\* The same document with a host that sends typed values and string
\* payloads, and with runtimes whose members throw.
TypedSpec == TypedInit /\ [][Next]_vars

\* -------------------------------------- the streaming-overlay document
\* buildTemplate of lines 15-245 with mode "obs".  Its options name no
\* vmDefaults and its URL no vm.<Name> pair, so applyBakedDefaults and
\* applyFromUrl assign nothing; the enter and exit triggers come from the
\* URL's in and out.

\* One member of opts.timers: whether isNum accepts it, and its value.
NoOption == [isNum |-> FALSE, n |-> 0]
Option(n) == [isNum |-> TRUE, n |-> n]
ObsConfig(t, url) == [timers |-> t, url |-> url, throws |-> {}]
UrlNumbers == {JsNull, Str("1"), Str("x")}
ObsConfigs ==
  { ObsConfig([startMs |-> a, outAfterMs |-> b, clearAfterMs |-> c],
              [in |-> i, out |-> o, startMs |-> x, outAfterMs |-> y, clearAfterMs |-> z]) :
      a \in {NoOption, Option(2), Option(-1)}, b \in {NoOption, Option(2)},
      c \in {NoOption, Option(2)},
      i \in {JsNull, Str("IN")}, o \in {JsNull, Str("OUT")},
      x \in UrlNumbers, y \in UrlNumbers, z \in UrlNumbers }

\* isNum(timers.x) ? timers.x : 0 | -1 | -1, as baked into the DEF object
DefaultsObj(name) ==
  IF cfg.timers[name].isNum THEN cfg.timers[name].n
  ELSE IF name = "startMs" THEN 0 ELSE -1
\* function num(v, d){ var n = Number(v); return isFinite(n) ? n : d; }
IntOf(x) == x.hi * Limb + x.lo
num(v, d) == IF Number(v).fin THEN IntOf(Number(v)) ELSE d
startMs == num(cfg.url.startMs, DefaultsObj("startMs"))
outAfterMs == num(cfg.url.outAfterMs, DefaultsObj("outAfterMs"))
clearAfterMs == num(cfg.url.clearAfterMs, DefaultsObj("clearAfterMs"))
\* params.get("in") || null, "" standing for null
trigIn == IF Truthy(cfg.url.in) THEN cfg.url.in.v ELSE ""
trigOut == IF Truthy(cfg.url.out) THEN cfg.url.out.v ELSE ""

\* setTimeout(fn, ms) called now, and the record of a callback that runs.
Timeout(fn, ms) == [fn |-> fn, due |-> clock + ms]
IsDue(fn) == \E t \in timeouts : t.fn = fn /\ t.due <= clock
Without(fn) == { t \in timeouts : t.fn # fn }
Ran(fn) == Append(ranAt, [fn |-> fn, at |-> clock])
\* Math.max(0, startMs)
Max0(n) == IF n > 0 THEN n ELSE 0

\* scheduleInOut(): the timeouts it sets, and those its callbacks set.
scheduleInOut == {Timeout("start", Max0(startMs))}
\* A faulty sequence that sets the purge timeout next to the exit timeout.
startCallbackSets_Unchained ==
  (IF outAfterMs > 0 THEN {Timeout("out", outAfterMs)} ELSE {})
  \cup (IF clearAfterMs > 0 THEN {Timeout("clear", clearAfterMs)} ELSE {})
startCallbackSets == IF outAfterMs > 0 THEN {Timeout("out", outAfterMs)} ELSE {}
outCallbackSets == IF clearAfterMs > 0 THEN {Timeout("clear", clearAfterMs)} ELSE {}
startCallback(s) == fireVmTrigger(Catch(RuntimeCall(s, "rplay")), trigIn)
outCallback(s) ==
  IF trigOut # "" THEN fireVmTrigger(s, trigOut) ELSE Catch(RuntimeCall(s, "rstop"))
clearCallback(s) == Catch(RuntimeCall(s, "cleanup"))

ObsInit == cfg \in ObsConfigs /\ Booted

\* The runtime calls onLoad: the view model is bound (or not) and
\* scheduleInOut() sets the first timeout.
ObsOnLoad ==
  /\ scriptLoaded /\ ~loaded
  /\ \E hasViewModel \in BOOLEAN :
       Commit(Logged([Cur EXCEPT !.vmi = hasViewModel], Ev("load", "", 0, 0)))
  /\ loaded' = TRUE
  /\ timeouts' = scheduleInOut
  /\ ranAt' = Ran("load")
  /\ UNCHANGED <<cfg, scriptLoaded, cleaned, earlyQ, sent, nUpdates, nCalls, clock, toolVars>>

\* The three callbacks of scheduleInOut, each run by the page when due.
StartTimeout ==
  /\ IsDue("start")
  /\ Commit(startCallback(Cur))
  /\ timeouts' = Without("start") \cup startCallbackSets
  /\ ranAt' = Ran("start")
  /\ UNCHANGED <<cfg, scriptLoaded, loaded, cleaned, earlyQ, sent, nUpdates, nCalls, clock,
                 toolVars>>
OutTimeout ==
  /\ IsDue("out")
  /\ Commit(outCallback(Cur))
  /\ timeouts' = Without("out") \cup outCallbackSets
  /\ ranAt' = Ran("out")
  /\ UNCHANGED <<cfg, scriptLoaded, loaded, cleaned, earlyQ, sent, nUpdates, nCalls, clock,
                 toolVars>>
ClearTimeout ==
  /\ IsDue("clear")
  /\ Commit(clearCallback(Cur))
  /\ cleaned' = TRUE
  /\ timeouts' = Without("clear")
  /\ ranAt' = Ran("clear")
  /\ UNCHANGED <<cfg, scriptLoaded, loaded, earlyQ, sent, nUpdates, nCalls, clock, toolVars>>

\* A millisecond passes; a timeout that is due runs before the next one.
Tick ==
  /\ clock < MaxClock
  /\ \A t \in timeouts : t.due > clock
  /\ clock' = clock + 1
  /\ UNCHANGED <<cfg, scriptLoaded, loaded, vmi, cleaned, earlyQ, __pendingUpdates,
                 __hasUpdatedOnce, __firstPlayPending, __firstPlayTimer,
                 timerScheduled, vals, log, sent, nUpdates, nCalls,
                 timeouts, ranAt, toolVars>>

ObsNext ==
  \/ MainScript
  \/ ObsOnLoad
  \/ StartTimeout
  \/ OutTimeout
  \/ ClearTimeout
  \/ Tick

ObsSpec == ObsInit /\ [][ObsNext]_vars

\* -------------------------------- the editor: extraction and synthesis
\* buildSchema as the repository has it three times: preset.mjs 159-209
\* ("instance": it only instantiates the runtime), preset.mjs 231-287
\* ("preferContents": Rive.contents() first, if there is one) and
\* part_000 20-60 ("contentsOnly").  cfg is the page the call runs in:
\* which of the three, whether the runtime has Rive.contents, the file
\* behind src, and whether reading the view model throws.  A file the
\* runtime cannot parse fails in contents() and in the instance alike.
docVars == <<scriptLoaded, loaded, vmi, cleaned, earlyQ, __pendingUpdates,
             __hasUpdatedOnce, __firstPlayPending, __firstPlayTimer,
             timerScheduled, vals, log, sent, nUpdates, nCalls>>

Artboard(n, sms) == [some |-> TRUE, name |-> n, stateMachines |-> sms]
ArtboardLists ==
  { <<>>,
    << Artboard("Main", << Named("SM") >>) >>,
    << Artboard("Intro", <<>>), Artboard("Main", << Named("Idle"), Named("SM") >>) >> }
ColorDefaults == {JsNull, JsNumber("16746496"), Str("#FF8800"), Str("#80FF8800"), Str("red")}
ToolConfigs ==
  { [impl |-> i, contents |-> c, readThrows |-> t, throws |-> {},
     file |-> [parsable |-> ok, artboards |-> l, raw |-> raw]] :
      i \in {"instance", "preferContents", "contentsOnly"}, c \in BOOLEAN, t \in BOOLEAN,
      ok \in BOOLEAN, l \in ArtboardLists, raw \in ColorDefaults }
RequestedNames == {"", "Main", "SM", "Nope"}

\* list.find(a => a.name === name) || list[0], after the two early returns
FirstNamed(list, name) ==
  list[CHOOSE i \in 1..Len(list) :
         list[i].name = name /\ \A j \in 1..(i - 1) : list[j].name # name]
Picked(list, name) ==
  IF Len(list) = 0 THEN None
  ELSE IF name = "" THEN list[1]
  ELSE IF \E i \in 1..Len(list) : list[i].name = name THEN FirstNamed(list, name)
  ELSE list[1]
\* A faulty pick that never looks for the name.
pickArtboard_First(info, name) == IF Len(info.artboards) = 0 THEN None ELSE info.artboards[1]
pickArtboard(info, name) == Picked(info.artboards, name)
pickStateMachine(ab, name) == Picked(ab.stateMachines, name)

\* coerceVMValue(type, raw)
HexDefault(cs) ==
  IF Len(cs) > 0 /\ cs[1] = "#" /\ Len(cs) \in {7, 9}
  THEN IF parseInt16(SubSeq(cs, 2, Len(cs))).fin
       THEN ToUint32(parseInt16(SubSeq(cs, 2, Len(cs))))
       ELSE Small(0)
  ELSE Small(0)
ColorDefault(raw, n) ==
  IF IsNullish(raw) THEN Small(0)
  ELSE IF n.fin THEN ToUint32(n)
  ELSE HexDefault(Chars(raw.v))
NumberValue(n) == IF n.fin THEN Num(n) ELSE JsNumber("NaN")
coerceVMValue(type, raw) ==
  CASE type = "string"  -> IF IsNullish(raw) THEN Str("") ELSE Str(raw.v)
    [] type = "number"  -> IF IsNullish(raw) THEN JsNumber("0") ELSE NumberValue(Number(raw))
    [] type = "boolean" -> Bool(Truthy(raw))
    [] type = "color"   -> Num(ColorDefault(raw, Number(raw)))
    [] type \in {"trigger", "image"} -> JsNull
    [] OTHER -> raw

\* The view-model properties of the file, and the defaults each version
\* reads from them: coerced in "instance", as the runtime holds them in
\* the other two (which list them only when contents() gave the artboard).
FileProps == << [name |-> "Tint", type |-> "color", value |-> cfg.file.raw] >>
Coerced(props) ==
  [i \in 1..Len(props) |-> [props[i] EXCEPT !.value = coerceVMValue(props[i].type, @)]]
DefaultsRead(j) ==
  IF cfg.readThrows THEN <<>>
  ELSE IF cfg.impl = "instance" THEN Coerced(FileProps)
  ELSE IF j.info /\ j.ab.some THEN FileProps
  ELSE <<>>

\* new Rive({...}), r.cleanup(), resolve and reject of the call's promise
Created(j) == [j EXCEPT !.phase = "loading", !.instance = "live"]
cleanup(j) == [j EXCEPT !.instance = "released"]
resolve(j) ==
  [j EXCEPT !.phase = "settled", !.outcome = "resolved",
            !.schema = [artboard |-> IF cfg.impl = "instance" THEN j.artboard ELSE j.ab.name,
                        stateMachine |-> IF cfg.impl = "instance" THEN j.stateMachine
                                         ELSE j.sm.name,
                        viewModelProps |-> DefaultsRead(j)]]
reject(j) == [j EXCEPT !.phase = "settled", !.outcome = "rejected"]

\* const ab = info ? pickArtboard(info, artboard) : (artboard ? { name: artboard } : null)
WithArtboard(j) ==
  [j EXCEPT !.ab = IF j.info THEN pickArtboard(cfg.file, j.artboard)
                   ELSE IF j.artboard # "" THEN Named(j.artboard) ELSE None]
WithStateMachine(j) ==
  [j EXCEPT !.sm = IF j.info THEN pickStateMachine(j.ab, j.stateMachine)
                   ELSE IF j.stateMachine # "" THEN Named(j.stateMachine) ELSE None]
Instantiated(j) == Created(WithStateMachine(WithArtboard(j)))

\* buildSchema(src, canvas, artboard, stateMachine) up to its first await
buildSchema(artboard, stateMachine) ==
  CASE cfg.impl = "instance" ->
         Created([Idle EXCEPT !.artboard = artboard, !.stateMachine = stateMachine,
                              !.outcome = "pending"])
    [] cfg.impl = "preferContents" /\ ~cfg.contents ->
         Instantiated([Idle EXCEPT !.artboard = artboard, !.stateMachine = stateMachine,
                                   !.outcome = "pending"])
    [] cfg.impl = "contentsOnly" /\ ~cfg.contents ->
         reject([Idle EXCEPT !.artboard = artboard, !.stateMachine = stateMachine])
    [] OTHER ->
         [Idle EXCEPT !.phase = "contents", !.artboard = artboard,
                      !.stateMachine = stateMachine, !.outcome = "pending"]
\* Rive.contents({ src }) settles: the call goes on with info, or without
\* it (preferContents), or fails (contentsOnly).
contentsSettled(j) ==
  IF cfg.file.parsable THEN Instantiated([j EXCEPT !.info = TRUE])
  ELSE IF cfg.impl = "preferContents" THEN Instantiated(j)
  ELSE reject(j)
\* onLoad of the offscreen instance
onLoadOffscreen(j) == cleanup(resolve(j))
\* An extractor whose error callback was never registered.
onErrorOffscreen_Unregistered(j) == [j EXCEPT !.phase = "failed"]
\* onLoadError (instance) and onError (preferContents) of the instance;
\* contentsOnly registers neither.
onErrorOffscreen(j) ==
  CASE cfg.impl = "instance" -> reject(cleanup(j))
    [] cfg.impl = "preferContents" -> reject(j)
    [] OTHER -> [j EXCEPT !.phase = "failed"]

\* buildTemplate(schema, opts) of lines 316-797, as far as the source of
\* the animation goes: the embedded bytes, the path, and what the
\* generated page hands to the runtime as src.
SynthOptions == { [embed |-> e, base64 |-> b] : e \in BOOLEAN,
                                                   b \in {Undefined, Str(""), Str("UklWRQ")} }
rivBase64(opts) == IF opts.embed THEN OrElse(opts.base64, Str("")).v ELSE ""
rivPath(opts) == IF ~opts.embed THEN "./graphics.riv" ELSE ""
buildTemplate(opts) ==
  [made |-> TRUE, threw |-> FALSE, opts |-> opts,
   rivBase64 |-> rivBase64(opts), rivPath |-> rivPath(opts),
   riv |-> IF opts.embed
           THEN IF rivBase64(opts) # "" THEN "blob:" ELSE ""
           ELSE rivPath(opts)]

ToolInit == cfg \in ToolConfigs /\ Booted

BuildSchemaCall ==
  /\ job.phase = "idle"
  /\ \E artboard \in RequestedNames, stateMachine \in RequestedNames :
       job' = buildSchema(artboard, stateMachine)
  /\ UNCHANGED <<cfg, docVars, obsVars, built, app>>
ContentsSettles ==
  /\ job.phase = "contents"
  /\ job' = contentsSettled(job)
  /\ UNCHANGED <<cfg, docVars, obsVars, built, app>>
InstanceLoads ==
  /\ job.phase = "loading" /\ cfg.file.parsable
  /\ job' = onLoadOffscreen(job)
  /\ UNCHANGED <<cfg, docVars, obsVars, built, app>>
InstanceFails ==
  /\ job.phase = "loading" /\ ~cfg.file.parsable
  /\ job' = onErrorOffscreen(job)
  /\ UNCHANGED <<cfg, docVars, obsVars, built, app>>
BuildTemplateCall ==
  /\ ~built.made
  /\ \E opts \in SynthOptions : built' = buildTemplate(opts)
  /\ UNCHANGED <<cfg, docVars, obsVars, job, app>>

ToolNext ==
  \/ BuildSchemaCall
  \/ ContentsSettles
  \/ InstanceLoads
  \/ InstanceFails
  \/ BuildTemplateCall

ToolSpec == ToolInit /\ [][ToolNext]_vars

\* The extractor alone, on the files with two artboards and no default
\* colour, where the runtime and the browser run the callbacks they owe.
FairToolConfigs ==
  { c \in ToolConfigs : Len(c.file.artboards) = 2 /\ c.file.raw = JsNull }
FairToolInit == cfg \in FairToolConfigs /\ Booted
FairToolNext ==
  \/ BuildSchemaCall
  \/ ContentsSettles
  \/ InstanceLoads
  \/ InstanceFails
FairToolSpec ==
  /\ FairToolInit /\ [][FairToolNext]_vars
  /\ WF_vars(ContentsSettles) /\ WF_vars(InstanceLoads) /\ WF_vars(InstanceFails)

\* ------------------------------------------------------------- editor page
\* The await of position i of a sequence of pending awaits has settled.
Settled(q, i) == [j \in 1..(Len(q) - 1) |-> IF j < i THEN q[j] ELSE q[j + 1]]

\* maybeBuildSchema up to its await: a missing name clears the schema and
\* disables the button, both names start a buildSchema call on blobURL.
maybeBuildSchema(a) ==
  IF a.file = NoFile \/ a.blobURL = NoFile THEN a
  ELSE IF a.artSel = "" \/ a.smSel = ""
  THEN [a EXCEPT !.schema = NullSchema, !.btnHtml = FALSE]
  ELSE [a EXCEPT !.building = Append(@, AppSchema(a.blobURL, a.artSel, a.smSel))]

\* analyzeSelectedFile up to its await.
analyzeSelectedFile(a) ==
  IF a.file = NoFile THEN a
  ELSE [a EXCEPT !.blobURL = a.file, !.inspecting = Append(@, a.file)]

\* analyzeSelectedFile after inspectContents resolved with the contents of f.
analyzed(a, i) ==
  [a EXCEPT !.inspecting = Settled(@, i), !.contents = a.inspecting[i],
            !.artSel = "", !.smSel = "", !.smOptions = {},
            !.schema = NullSchema, !.btnHtml = FALSE]

\* maybeBuildSchema after buildSchema resolved / rejected.
schemaBuilt(a, i) ==
  [a EXCEPT !.building = Settled(@, i), !.schema = a.building[i], !.btnHtml = TRUE]
schemaFailed(a, i) ==
  [a EXCEPT !.building = Settled(@, i), !.schema = NullSchema, !.btnHtml = FALSE]

\* The click handler from the buildTemplate call on: a null schema throws
\* inside buildTemplate, any other is synthesized and downloaded.
downloadHtml(a, embed, riv) ==
  IF a.schema = NullSchema THEN a
  ELSE [a EXCEPT !.download =
          [made |-> TRUE, schema |-> a.schema, file |-> a.file, ab |-> a.artSel,
           sm |-> a.smSel, embed |-> embed, riv |-> riv]]

\* The click handler of the download button up to its first await.
clickHtml(a, embed) ==
  IF a.schema = NullSchema THEN a
  ELSE IF embed
  THEN (IF a.file = NoFile THEN a ELSE [a EXCEPT !.encoding = Append(@, a.file)])
  ELSE downloadHtml(a, FALSE, a.file)

Op(a) == [a EXCEPT !.ops = @ + 1]
AppUnchanged == UNCHANGED <<cfg, docVars, obsVars, job, built>>

FileChange ==
  /\ app.ops < MaxAppOps
  /\ \E f \in AppFiles \ {app.file} :
       app' = analyzeSelectedFile([Op(app) EXCEPT !.file = f])
  /\ AppUnchanged
InspectResolves ==
  /\ \E i \in 1..Len(app.inspecting) : app' = analyzed(app, i)
  /\ AppUnchanged
InspectRejects ==
  /\ \E i \in 1..Len(app.inspecting) :
       app' = [app EXCEPT !.inspecting = Settled(@, i)]
  /\ AppUnchanged
ArtSelChange ==
  /\ app.ops < MaxAppOps
  /\ \E ab \in (DOMAIN AppContents(app.contents) \cup {""}) \ {app.artSel} :
       app' = maybeBuildSchema(
                [Op(app) EXCEPT !.artSel = ab, !.smSel = "",
                   !.smOptions = IF ab = "" THEN {} ELSE AppContents(app.contents)[ab]])
  /\ AppUnchanged
SmSelChange ==
  /\ app.ops < MaxAppOps
  /\ \E sm \in (app.smOptions \cup {""}) \ {app.smSel} :
       app' = maybeBuildSchema([Op(app) EXCEPT !.smSel = sm])
  /\ AppUnchanged
BuildResolves ==
  /\ \E i \in 1..Len(app.building) : app' = schemaBuilt(app, i)
  /\ AppUnchanged
BuildRejects ==
  /\ \E i \in 1..Len(app.building) : app' = schemaFailed(app, i)
  /\ AppUnchanged
BtnHtmlClick ==
  /\ app.ops < MaxAppOps
  /\ app.btnHtml
  /\ \E embed \in BOOLEAN : app' = clickHtml(Op(app), embed)
  /\ AppUnchanged
EncodeResolves ==
  /\ \E i \in 1..Len(app.encoding) :
       app' = downloadHtml([app EXCEPT !.encoding = Settled(@, i)], TRUE, app.encoding[i])
  /\ AppUnchanged

AppConfigs == { CHOOSE c \in FairToolConfigs : TRUE }
AppInit == cfg \in AppConfigs /\ Booted
AppNext ==
  \/ FileChange
  \/ InspectResolves
  \/ InspectRejects
  \/ ArtSelChange
  \/ SmSelChange
  \/ BuildResolves
  \/ BuildRejects
  \/ BtnHtmlClick
  \/ EncodeResolves
AppSpec == AppInit /\ [][AppNext]_vars

\* ------------------------------------------------------ reading the log
Markers == {"recv", "play", "next", "stop", "remove", "timer", "load"}
Commands == {"recv", "play", "next", "stop", "remove"}
Effects == {"apply", "rplay", "fire", "rstop", "cleanup", "baked", "url"}

\* The handler during which log[j] was appended.
OwnerOf(j) == CHOOSE m \in 1..j :
                /\ log[m].e \in Markers
                /\ \A x \in (m + 1)..j : log[x].e \notin Markers

IsApplyEv(ev) == ev.e = "apply"
IdsOf(q) == [i \in 1..Len(q) |-> q[i].id]
HasPayload(u) == ~u.isNull

\* Ids of the update calls that carried a payload, in arrival order.
PayloadIds == IdsOf(SelectSeq(sent, HasPayload))
\* Ids of the mappings apply() has processed, in the order it did.
AppliedIds == IdsOf(SelectSeq(log, IsApplyEv))
\* Ids waiting in the two queues, the stub's first.
QueuedIds == IdsOf(SelectSeq(earlyQ, HasPayload)) \o IdsOf(__pendingUpdates)

Sets(id, P) == HasPayload(sent[id]) /\ HasKey(sent[id].o, P)
Setters(P) == { id \in 1..Len(sent) : Sets(id, P) }
LastSetter(P) == CHOOSE id \in Setters(P) : \A other \in Setters(P) : other <= id
ValueFrom(id, P) == Str(Get(sent[id].o, P).v)

PosOf(kind, id) == CHOOSE i \in DOMAIN log : log[i].e = kind /\ log[i].id = id
LoadPos == CHOOSE i \in DOMAIN log : log[i].e = "load"
ViaOf(id) == sent[id].via
\* log[j] is the enter trigger fired by __doPlayNow.
IsEnterFire(j) == /\ j > 1 /\ log[j].e = "fire" /\ log[j].n = cfg.in
                  /\ log[j - 1].e = "rplay"

\* --------------------------------------------------------------- claims

\* C1: no update is dropped while Unbound. Before the load callback every
\* payload received so far waits in the queues in arrival order; once the
\* view model is bound every payload has been applied, in arrival order, so
\* a property set by several updates holds the value of the last one.
C1_NoUpdateDropped ==
  /\ ~loaded => QueuedIds = PayloadIds
  /\ vmi => AppliedIds = PayloadIds
  /\ vmi => \A P \in ValueProps :
              Setters(P) # {} => vals[P] = ValueFrom(LastSetter(P), P)

\* Two updates set Title while Unbound (with different values), the
\* document has bound, and Title holds the second one's value.
C1_Witness ==
  /\ vmi
  /\ \E i, j \in 1..Len(sent) :
       /\ i < j /\ Sets(i, "Title") /\ Sets(j, "Title")
       /\ ValueFrom(i, "Title") # ValueFrom(j, "Title")
       /\ PosOf("recv", i) < LoadPos /\ PosOf("recv", j) < LoadPos
       /\ ViaOf(i) = "real" /\ ViaOf(j) = "real"
       /\ LastSetter("Title") = j
       /\ vals["Title"] = ValueFrom(j, "Title")

\* C2: a held play is never held forever: once a play is held, it is
\* eventually released (playback started), whether or not an update comes.
C2_HeldPlayEventuallyStarts ==
  [](__firstPlayPending => <>(~__firstPlayPending))

\* C3: whenever __doPlayNow fires the enter trigger, every payload the
\* document had received before that moment has already been applied.
C3_UpdateVisibleAtEnter ==
  \A j \in DOMAIN log :
    IsEnterFire(j) =>
      \A i \in 1..(j - 1) :
        (log[i].e = "recv" /\ HasPayload(sent[log[i].id])) =>
          \E k \in 1..(j - 1) : log[k].e = "apply" /\ log[k].id = log[i].id

\* The step is a call of the real update handler with a payload.
IsRealUpdateStep ==
  /\ scriptLoaded
  /\ nUpdates' = nUpdates + 1
  /\ HasPayload(sent'[nUpdates'])

\* The step started playback: r.play() was appended to the log.
StartsPlayback ==
  \E j \in (Len(log) + 1)..Len(log') : log'[j].e = "rplay"

\* C4 as stated: an update arriving while a play is held cancels the
\* deferred play and plays at once, Bound or Unbound.
C4_UpdateReleasesHeldPlay ==
  [][ (IsRealUpdateStep /\ __firstPlayPending) =>
        (~__firstPlayPending' /\ ~timerScheduled' /\ StartsPlayback) ]_vars

\* C4 amended: an update arriving while a play is held and the document is
\* Bound cancels the deferred play and plays at once; one arriving while
\* Unbound is only queued: the play stays held, its timer stays as it is,
\* and playback is not started.
C4_BoundUpdateReleasesHeldPlay ==
  [][ (IsRealUpdateStep /\ __firstPlayPending) =>
        IF vmi
        THEN ~__firstPlayPending' /\ ~timerScheduled' /\ ~__firstPlayTimer'
             /\ StartsPlayback
        ELSE /\ __pendingUpdates' = Append(__pendingUpdates, sent'[nUpdates'])
             /\ __firstPlayPending' /\ timerScheduled' = timerScheduled
             /\ ~StartsPlayback ]_vars

\* An update arrived while Bound with a play held on a live timer: the
\* handler applied it and started playback in the same call, and the timer
\* is gone.
C4_Witness ==
  /\ ~timerScheduled /\ ~__firstPlayPending
  /\ \E j \in DOMAIN log :
       /\ j + 2 <= Len(log) /\ j > 1
       /\ log[j - 1].e = "play"
       /\ log[j].e = "recv" /\ log[j].n = "real"
       /\ log[j + 1].e = "apply"
       /\ log[j + 2].e = "rplay"

\* C5: playback is never started (r.play() called, enter trigger fired by
\* __doPlayNow) while __pendingUpdates is non-empty.
C5_NoPlayWhilePending ==
  \A j \in DOMAIN log :
    (log[j].e = "rplay" \/ IsEnterFire(j)) => log[j].q = 0

\* C6: a play issued before the load callback is not lost: once the
\* document is Bound and no play is held any more, the configured enter
\* trigger has been fired.
C6_EarlyPlayNotLost ==
  ( /\ vmi /\ cfg.in # "" /\ ~__firstPlayPending
    /\ \E i \in DOMAIN log : log[i].e = "play" /\ i < LoadPos )
  => \E j \in DOMAIN log : IsEnterFire(j)

\* C7: the load callback applies the baked defaults, then the URL values,
\* then the queued updates; so a property holds the value of the last
\* update that set it, else the URL's value for it.
C7_BindOrder ==
  vmi =>
    /\ \A j \in DOMAIN log :
         log[j].e \in {"baked", "url"} =>
           /\ \A i \in 1..(j - 1) :
                /\ ~(log[i].e = "url" /\ log[j].e = "baked")
                /\ log[i].e # "apply"
           /\ OwnerOf(j) = LoadPos
    /\ \A P \in ValueProps :
         IF Setters(P) # {} THEN vals[P] = ValueFrom(LastSetter(P), P)
         ELSE HasKey(cfg.url, P) => vals[P] = Str(Get(cfg.url, P).v)

\* Title is set by a baked default, by the URL and by an update queued
\* before the load callback, and holds the queued update's value.
C7_Witness ==
  /\ vmi
  /\ HasKey(cfg.vmDefaults, "Title") /\ HasKey(cfg.url, "Title")
  /\ \E i, j, k \in DOMAIN log :
       /\ log[i].e = "baked" /\ log[j].e = "url" /\ log[k].e = "apply"
       /\ i < j /\ j < k /\ OwnerOf(k) = LoadPos
       /\ Sets(log[k].id, "Title")
       /\ LastSetter("Title") = log[k].id
       /\ vals["Title"] = ValueFrom(log[k].id, "Title")
       /\ vals["Title"] \notin {Str(Get(cfg.url, "Title").v), Str(Get(cfg.vmDefaults, "Title").v)}

\* C8: once Bound, every baked default whose property the runtime exposes
\* is in place, unless the URL or an update set that property.
C8_AllBakedApplied ==
  vmi =>
    \A i \in DOMAIN cfg.vmDefaults :
      LET P == cfg.vmDefaults[i].k IN
      (P \in ValueProps /\ ~HasKey(cfg.url, P) /\ Setters(P) = {})
        => vals[P] = Str(cfg.vmDefaults[i].v.v)

\* C9: payloads captured by the early stub are applied once Bound, and
\* each of them before any payload the real handler queued or applied.
C9_StubFirst ==
  /\ \A i \in DOMAIN log :
       (log[i].e = "apply" /\ ViaOf(log[i].id) = "stub") =>
         \A j \in 1..(i - 1) : ~(log[j].e = "apply" /\ ViaOf(log[j].id) = "real")
  /\ vmi => \A id \in 1..Len(sent) :
              (HasPayload(sent[id]) /\ ViaOf(id) = "stub") =>
                 \E k \in DOMAIN log : log[k].e = "apply" /\ log[k].id = id
  /\ loaded => earlyQ = <<>>

\* The stub captured a payload, the real handler queued another while
\* Unbound, and the load callback applied the stub's first.
C9_Witness ==
  /\ vmi
  /\ \E i, j \in DOMAIN log :
       /\ log[i].e = "apply" /\ log[j].e = "apply" /\ i < j
       /\ ViaOf(log[i].id) = "stub" /\ ViaOf(log[j].id) = "real"
       /\ OwnerOf(i) = LoadPos /\ OwnerOf(j) = LoadPos

\* C10: after remove has called cleanup, no later command calls the
\* runtime, writes a property or fires a trigger.
C10_ReleasedIsTerminal ==
  \A j \in DOMAIN log :
    (log[j].e \in Effects /\ log[OwnerOf(j)].e \in Commands)
      => ~(\E i \in 1..(OwnerOf(j) - 1) : log[i].e = "cleanup")

\* The remove markers logged before position j.
RemovesBefore(j) == { i \in 1..(j - 1) : log[i].e = "remove" }

\* C11: remove is idempotent and leaves the document Released: once remove
\* has been called twice, a later command may at most call cleanup again;
\* it does not stop or play the runtime, fire a trigger or write a property.
C11_RemoveTwiceLeavesReleased ==
  \A j \in DOMAIN log :
    (log[j].e \in (Effects \ {"cleanup"}) /\ log[OwnerOf(j)].e \in Commands)
      => Cardinality(RemovesBefore(OwnerOf(j))) < 2

\* ------------------------------------------- typed dispatch and parsing
\* The raw argument of the update call u.
ArgOf(u) == [u EXCEPT !.id = 0, !.via = ""]
Applied(id) == \E k \in DOMAIN log : log[k].e = "apply" /\ log[k].id = id
LastArg == ArgOf(sent[Len(sent)])
NoThrow == \A j \in DOMAIN log : log[j].e # "throw"
\* log[i] is an update the real handler received after the load callback.
IsBoundUpdate(i) ==
  /\ log[i].e = "recv" /\ log[i].n = "real"
  /\ \E l \in 1..(i - 1) : log[l].e = "load"

\* C12: no entry point lets an exception reach the host, in any lifecycle
\* state and whichever runtime method or typed accessor throws.
C12_NoExceptionEscapes == NoThrow

\* Every runtime member throws; a payload was applied while Bound (every
\* accessor threw) and play then called r.play() and the enter trigger.
C12_Witness ==
  /\ cfg.throws = AllThrow /\ vmi
  /\ \E i, j \in DOMAIN log :
       /\ i < j /\ IsBoundUpdate(i) /\ HasPayload(sent[log[i].id])
       /\ log[j].e = "play" /\ log[j - 1].e = "apply"

\* C13: a throwing accessor costs only its own property: after the pass
\* over {Title, Count, Show} every property whose accessor throws is left
\* as it was and every other one holds its payload value.
MixedValue(P) ==
  CASE P = "Title" -> Str("World")
    [] P = "Count" -> JsNumber("5")
    [] P = "Show"  -> JsTrue
C13_WritesIsolated ==
  (cfg.data = "mixed" /\ vmi /\ \E id \in 1..Len(sent) : HasPayload(sent[id]) /\ Applied(id)) =>
    \A P \in {"Title", "Count", "Show"} :
      vals[P] = IF P \in cfg.throws THEN DefaultOf(P) ELSE MixedValue(P)

\* Only Count's accessor throws: Title and Show were written, Count not.
C13_Witness ==
  /\ cfg.throws = {"Count"} /\ vmi
  /\ vals["Title"] = Str("World") /\ vals["Show"] = JsTrue
  /\ vals["Count"] = DefaultOf("Count")
  /\ \E i \in DOMAIN log : IsBoundUpdate(i) /\ HasPayload(sent[log[i].id])

\* C14: a string no recovery step can read is discarded: it changes no
\* property, nothing is thrown, and later updates are still applied (the
\* properties hold exactly what the readable updates gave them).
IsUnparsable(u) == u.str /\ u.toks \in { x.toks : x \in UnparsableTexts }
C14_UnparsableDiscarded ==
  cfg.data = "unreadable" =>
    /\ NoThrow
    /\ vmi => \A P \in RuntimeProps :
         vals[P] = IF P = "Title" /\ \E id \in 1..Len(sent) : ~IsUnparsable(sent[id])
                   THEN Str("World")
                   ELSE DefaultOf(P)

\* While Bound the handler received an unreadable string, then readable
\* JSON, which it applied.
C14_Witness ==
  /\ cfg.data = "unreadable" /\ vmi /\ Len(sent) = 2
  /\ IsUnparsable(sent[1]) /\ Len(sent[1].toks) > 0 /\ ~IsUnparsable(sent[2])
  /\ \E i \in DOMAIN log : IsBoundUpdate(i) /\ log[i].id = 1
  /\ vals["Title"] = Str("World")

\* C15: the payload {"Title":"World"}, as an object or as JSON text, leaves
\* the bound string property Title holding "World".
C15_TitleWorld ==
  (vmi /\ Len(sent) > 0 /\ LastArg \in {TitleWorld, JsonText}) =>
    vals["Title"] = Str("World")

\* The JSON text arrived before the load callback and was applied by it.
C15_Witness ==
  /\ vmi /\ Len(sent) = 1 /\ LastArg = JsonText
  /\ vals["Title"] = Str("World")
  /\ \E i \in DOMAIN log : log[i].e = "apply" /\ OwnerOf(i) = LoadPos

\* C16: keys that differ from a declared name only by case are written to
\* that property with the coercion of its type: title, count, show set the
\* string Title, the number Count and the boolean Show.
C16_CaseInsensitiveKeys ==
  (vmi /\ Len(sent) > 0 /\ LastArg = LowerCaseKeys) =>
    /\ vals["Title"] = Str("World")
    /\ vals["Count"] = JsNumber("5")
    /\ vals["Show"] = JsTrue

C16_Witness ==
  /\ vmi /\ Len(sent) = 1 /\ LastArg = LowerCaseKeys
  /\ vals["Title"] = Str("World") /\ vals["Count"] = JsNumber("5") /\ vals["Show"] = JsTrue
  /\ \E i \in DOMAIN log : IsBoundUpdate(i)

\* C17: a key that resolves to no declared property is ignored: it writes
\* no property, fires no trigger and raises no error.  (The file the
\* runtime loads, which ?riv= can replace, has the property Extra that the
\* schema does not declare.)
C17_UnresolvedIgnored ==
  cfg.data = "names" =>
    /\ vals["Extra"] = DefaultOf("Extra")
    /\ \A j \in DOMAIN log : log[j].e \notin {"fire", "throw"}

\* C18: a boolean property is assigned true exactly for boolean true, the
\* number 1 and the strings "true", "1", "yes" in any letter case, and
\* false for every other value.
BooleanTrue == {JsTrue, JsNumber("1"), Str("true"), Str("TRUE"), Str("1"),
                Str("yes"), Str("Yes")}
C18_BooleanCoercion ==
  (cfg.data = "booleans" /\ vmi /\ Len(sent) > 0) =>
    vals["Show"] = Bool(Get(LastArg.o, "Show") \in BooleanTrue)

\* The trigger fires counted in the dispatch pass that log[j] starts.
FiresOfPass(j) ==
  { k \in (j + 1)..Len(log) : \A x \in (j + 1)..k : log[x].e = "fire" }

\* C19: one update fires a trigger exactly once for boolean true, "true"
\* or "1", and not at all for any other value.
C19_TriggerFiresOnce ==
  cfg.data = "triggers" =>
    \A j \in DOMAIN log :
      log[j].e = "apply" =>
        Cardinality(FiresOfPass(j)) =
          IF Get(sent[log[j].id].o, "IN") \in {JsTrue, Str("true"), Str("1")} THEN 1 ELSE 0

\* C20: the hex string "#FF8800", the number 16755200 and the numeric RGB
\* value 0xFF8800 = 16746496 all coerce to the opaque colour 0xFFFF8800.
C20_ColorCoercion ==
  (cfg.data = "colors" /\ vmi /\ Len(sent) > 0
     /\ Get(LastArg.o, "Tint") \in
          {Str("#FF8800"), JsNumber("16755200"), JsNumber("16746496")}) =>
    vals["Tint"] = JsNumber("4294936576")

\* ----------------------------------------------------- stop and advance
\* The step is a call of the command cmd; log'[Len(log) + 1] is its marker.
IsCommandStep(cmd) ==
  /\ nCalls' = nCalls + 1
  /\ log'[Len(log) + 1].e = cmd
\* What the call appended to the log after its marker.
EffectsOfStep == SubSeq(log', Len(log) + 2, Len(log'))

\* C21: stop fires the configured exit trigger when Bound and calls the
\* runtime's stop exactly when no exit trigger is configured or the fire
\* did not succeed: every call does exactly one of the two.
C21_StopFiresOrStops ==
  [][ IsCommandStep("stop") =>
        /\ Len(EffectsOfStep) = 1
        /\ IF cfg.out # "" /\ vmi
           THEN EffectsOfStep[1].e = "fire" /\ EffectsOfStep[1].n = cfg.out
           ELSE EffectsOfStep[1].e = "rstop" ]_vars

\* One stop came while Unbound and reached r.stop(); a later one, Bound,
\* fired the exit trigger.
C21_Witness ==
  \E i, j \in 1..(Len(log) - 1) :
    /\ i < j /\ log[i].e = "stop" /\ log[j].e = "stop"
    /\ log[i + 1].e = "rstop"
    /\ log[j + 1].e = "fire" /\ log[j + 1].n = cfg.out

\* C22: next fires the configured advance trigger when one is configured
\* and the document is Bound, and does nothing else; otherwise it changes
\* nothing at all.
C22_NextFiresOrNothing ==
  [][ IsCommandStep("next") =>
        /\ EffectsOfStep =
             IF cfg.next # "" /\ vmi
             THEN << Ev("fire", cfg.next, 0, Len(__pendingUpdates)) >>
             ELSE <<>>
        /\ UNCHANGED <<scriptLoaded, loaded, vmi, cleaned, earlyQ, __pendingUpdates,
                       __hasUpdatedOnce, __firstPlayPending, __firstPlayTimer,
                       timerScheduled, vals, sent>> ]_vars

\* One next came while Unbound and did nothing; a later one, Bound, fired
\* the advance trigger.
C22_Witness ==
  \E i, j \in 1..Len(log) :
    /\ i < j /\ log[i].e = "next" /\ log[j].e = "next"
    /\ log[i + 1].e \in Markers
    /\ j < Len(log) /\ log[j + 1].e = "fire" /\ log[j + 1].n = cfg.next

\* C23: the content {Title: "World"} normalizes to the same flat mapping
\* in every supported encoding: strict JSON, templateData-nested JSON,
\* quote-wrapped JSON, JSON with bare line breaks, and XML componentData.
C23_EncodingsAgree ==
  cfg.data = "encodings" =>
    /\ \A i \in 1..Len(__pendingUpdates) : __pendingUpdates[i].o = TitleWorld.o
    /\ (vmi /\ Len(sent) > 0) =>
         \A P \in RuntimeProps :
           vals[P] = IF P = "Title" THEN Str("World") ELSE DefaultOf(P)

\* Nested JSON and XML were both received while Unbound and wait in the
\* queue as the same mapping.
C23_Witness ==
  /\ cfg.data = "encodings" /\ Len(__pendingUpdates) = 2
  /\ ArgOf(sent[1]) = NestedJsonText /\ ArgOf(sent[2]) = XmlText
  /\ __pendingUpdates[1].o = __pendingUpdates[2].o
  /\ __pendingUpdates[1].o = TitleWorld.o

\* ------------------------------------------------- the overlay's timers
HasRun(fn) == \E i \in 1..Len(ranAt) : ranAt[i].fn = fn
At(fn) == ranAt[CHOOSE i \in 1..Len(ranAt) : ranAt[i].fn = fn].at
TimesRun(fn) == Cardinality({ i \in 1..Len(ranAt) : ranAt[i].fn = fn })
\* fn ran d milliseconds after the callback that set it, and only because
\* that one had run and d was positive (zero will do for the first).
RanAfter(fn, before, d, least) ==
  HasRun(fn) => HasRun(before) /\ d >= least /\ At(fn) = At(before) + d
\* fn has run once d milliseconds have passed since before.
RunsAfter(fn, before, d, least) ==
  (HasRun(before) /\ d >= least /\ clock > At(before) + d) => HasRun(fn)
\* What the callbacks that have run did to the runtime, in order.
EffectOf(fn) ==
  CASE fn = "start" -> << "rplay" >> \o (IF trigIn # "" /\ vmi THEN << "fire" >> ELSE <<>>)
    [] fn = "out"   -> IF trigOut = "" THEN << "rstop" >>
                       ELSE IF vmi THEN << "fire" >> ELSE <<>>
    [] fn = "clear" -> << "cleanup" >>
    [] OTHER        -> << "load" >>
RECURSIVE EffectsUpTo(_)
EffectsUpTo(n) == IF n = 0 THEN <<>> ELSE EffectsUpTo(n - 1) \o EffectOf(ranAt[n].fn)

\* C24: the overlay sequences itself with three chained timers: playback
\* and the enter trigger startMs after the load, the exit trigger (or
\* r.stop() when none is named) outAfterMs later when that is positive,
\* cleanup clearAfterMs later again when that is positive; in this order,
\* each at most once.
C24_ChainedTimers ==
  /\ \A fn \in {"load", "start", "out", "clear"} : TimesRun(fn) <= 1
  /\ RanAfter("start", "load", Max0(startMs), 0) /\ RunsAfter("start", "load", Max0(startMs), 0)
  /\ RanAfter("out", "start", outAfterMs, 1) /\ RunsAfter("out", "start", outAfterMs, 1)
  /\ RanAfter("clear", "out", clearAfterMs, 1) /\ RunsAfter("clear", "out", clearAfterMs, 1)
  /\ [i \in 1..Len(log) |-> log[i].e] = EffectsUpTo(Len(ranAt))

\* All three callbacks have run, one millisecond apart, on a bound
\* document whose URL names both triggers.
C24_Witness ==
  /\ HasRun("clear") /\ vmi /\ trigIn # "" /\ trigOut # ""
  /\ At("out") = At("start") + 1 /\ At("clear") = At("out") + 1
  /\ Len(log) = 5

\* The delay the options and the URL ask for: the URL's when present and
\* finite, else the configured one.
Configured(name) ==
  IF ~IsNullish(cfg.url[name]) /\ Number(cfg.url[name]).fin
  THEN IntOf(Number(cfg.url[name]))
  ELSE DefaultsObj(name)

\* C25: each effective delay is the URL's value when that parameter is
\* present and finite and the configured one otherwise, so without timer
\* parameters the configured delays drive the sequence.
C25_ConfiguredDelays ==
  /\ RanAfter("start", "load", Max0(Configured("startMs")), 0)
  /\ RanAfter("out", "start", Configured("outAfterMs"), 1)
  /\ RunsAfter("out", "start", Configured("outAfterMs"), 1)
  /\ RanAfter("clear", "out", Configured("clearAfterMs"), 1)
  /\ RunsAfter("clear", "out", Configured("clearAfterMs"), 1)

\* ------------------------------------------ extraction and synthesis
\* C26: buildTemplate rejects a request that asks for embedding and
\* brings no payload bytes: it fails and returns no document.
C26_EmbedNeedsBytes ==
  (built.made /\ built.opts.embed /\ ~Truthy(built.opts.base64)) => built.threw

NamesOf(list) == { list[i].name : i \in 1..Len(list) }
\* What the claim asks of a pick from list for the requested name.
Resolves(list, name, got) ==
  /\ got.some <=> Len(list) > 0
  /\ (name \in NamesOf(list)) => got.name = name
  /\ (Len(list) > 0 /\ name \notin NamesOf(list)) => got = list[1]

\* C27: the extractor picks the artboard and the state machine by exact
\* name, takes the first one when the name is unspecified or not found,
\* and yields none only when the list is empty.
C27_PickByNameOrFirst ==
  (job.info /\ job.phase \in {"loading", "settled"}) =>
    /\ Resolves(cfg.file.artboards, job.artboard, job.ab)
    /\ Resolves(job.ab.stateMachines, job.stateMachine, job.sm)

\* The second artboard was asked for by name and found; the state machine
\* asked for is not in it, so its first one was taken.
C27_Witness ==
  /\ job.info /\ job.phase = "settled" /\ job.outcome = "resolved"
  /\ Len(cfg.file.artboards) = 2 /\ job.artboard = "Main" /\ job.ab = cfg.file.artboards[2]
  /\ job.stateMachine = "Nope" /\ job.sm = Named("Idle")

\* C28: buildSchema releases the offscreen instance on every path: the
\* load succeeds, reading the properties throws, or the load fails.
C28_InstanceReleased ==
  job.phase = "settled" => job.instance # "live"

C30_DefaultColorOpaque ==
  (cfg.impl = "instance" /\ job.outcome = "resolved" /\ ~cfg.readThrows) =>
    /\ cfg.file.raw = Str("#FF8800") => job.schema.viewModelProps[1].value = JsNumber("4294936576")
    /\ cfg.file.raw = Str("#80FF8800") => job.schema.viewModelProps[1].value = JsNumber("2164230144")

\* ------------------------------------------- the binding and the guard
\* C32: while the view-model handle is absent, apply and fireVmTrigger do
\* nothing: no property is written, no trigger is fired, and since
\* fireVmTrigger reports false every stop goes on to r.stop().
C32_AbsentBindingNoOps ==
  ~vmi =>
    /\ vals = [n \in RuntimeProps |-> DefaultOf(n)]
    /\ \A j \in DOMAIN log :
         /\ log[j].e \notin {"fire", "apply", "baked", "url"}
         /\ log[j].e = "stop" => (j < Len(log) /\ log[j + 1].e = "rstop")

\* The runtime loaded without a view model; since then an update with a
\* payload, a next and a stop have come, with both triggers configured.
C32_Witness ==
  /\ loaded /\ ~vmi /\ cfg.next # "" /\ cfg.out # ""
  /\ Len(__pendingUpdates) > 0
  /\ \E l, i, j \in DOMAIN log :
       /\ log[l].e = "load" /\ l < i /\ l < j
       /\ log[i].e = "next" /\ log[j].e = "stop"

\* The step called r.play() more than once.
PlaysStarted == { j \in (Len(log) + 1)..Len(log') : log'[j].e = "rplay" }

\* C36: a held play is executed once.  A step that starts playback while
\* the grace timer is live ends the window (the timer is gone and nothing
\* is held), only a held play is started by an update, the load callback
\* or the timer, and no step starts playback twice.
C36_HeldPlayOnce ==
  [][ StartsPlayback =>
        /\ Cardinality(PlaysStarted) = 1
        /\ timerScheduled => (~timerScheduled' /\ ~__firstPlayPending')
        /\ ~IsCommandStep("play") => (__firstPlayPending /\ ~__firstPlayPending') ]_vars

\* C37: once the load callback has run with a view model, the queue of
\* pending updates and the early stub's queue are empty and stay empty,
\* and every later update with a payload is applied inside its own call.
C37_NoQueueWhenBound ==
  vmi =>
    /\ __pendingUpdates = <<>> /\ earlyQ = <<>>
    /\ \A i \in DOMAIN log :
         (IsBoundUpdate(i) /\ HasPayload(sent[log[i].id])) =>
           (i < Len(log) /\ log[i + 1].e = "apply" /\ log[i + 1].id = log[i].id)

\* The stub and the real handler each queued a payload before the load
\* callback, which bound the document; an update came afterwards.
C37_Witness ==
  /\ vmi /\ __pendingUpdates = <<>> /\ earlyQ = <<>>
  /\ \E i, j, k \in DOMAIN log :
       /\ log[i].e = "recv" /\ log[i].n = "stub" /\ HasPayload(sent[log[i].id])
       /\ log[j].e = "recv" /\ log[j].n = "real" /\ HasPayload(sent[log[j].id])
       /\ j < LoadPos /\ log[j].q = 0
       /\ IsBoundUpdate(k) /\ HasPayload(sent[log[k].id])

\* C38: every non-null update the handler processes while Bound counts as
\* an applied update, whatever its mapping holds: the flag is set and a
\* held play is released at once (its timer cancelled, playback started).
C38_AnyBoundUpdateCounts ==
  [][ (IsRealUpdateStep /\ vmi) =>
        /\ __hasUpdatedOnce' /\ ~__firstPlayPending'
        /\ __firstPlayPending =>
             /\ ~timerScheduled' /\ ~__firstPlayTimer'
             /\ "rplay" \notin cfg.throws => StartsPlayback ]_vars

\* A play was held on a bound document; then a string no recovery step
\* can read arrived: its empty mapping was applied and playback started.
C38_Witness ==
  /\ vmi /\ __hasUpdatedOnce /\ ~__firstPlayPending /\ ~timerScheduled
  /\ Len(sent) = 1 /\ IsUnparsable(sent[1])
  /\ \E j \in DOMAIN log :
       /\ j > 1 /\ j + 2 <= Len(log)
       /\ log[j - 1].e = "play"
       /\ IsBoundUpdate(j)
       /\ log[j + 1].e = "apply" /\ log[j + 2].e = "rplay"

\* C39: when remove comes while a play is held, the grace timer that is
\* still pending starts nothing afterwards: the timer's callback neither
\* calls r.play() nor fires the enter trigger once cleanup has been called.
C39_NoPlayAfterRemove ==
  \A j \in DOMAIN log :
    (log[j].e \in {"rplay", "fire"} /\ log[OwnerOf(j)].e = "timer")
      => ~(\E i \in 1..(j - 1) : log[i].e = "cleanup")

\* ------------------------------------------------ the URL and the update
\* The step fired a trigger; a trigger has been fired before it.
FiresInStep == \E j \in (Len(log) + 1)..Len(log') : log'[j].e = "fire"
HasFired == \E j \in DOMAIN log : log[j].e = "fire"

\* C33: the URL and the update coerce alike.  On a page whose URL set
\* vm.<Name>=<value> at load, the first update {Name: value} changes no
\* property, and it fires the trigger exactly if the URL did.
C33_UrlAndUpdateAgree ==
  [][ (cfg.data = "urls" /\ IsRealUpdateStep /\ vmi /\ nUpdates = 0) =>
        /\ vals' = vals
        /\ FiresInStep <=> HasFired ]_vars

\* ------------------------------------------------------------ probing
\* The order the claim gives, and what it predicts for the key name with
\* the value val: the first accessor that returns an item and accepts the
\* value is written; an absent and a throwing accessor are passed over.
ProbeOrder == << "string", "number", "boolean", "color" >>
Succeeds(type, name, val) == Accessor(type, name) = "item" /\ Coerce(type, val).ok
FirstSuccess(name, val) ==
  { i \in 1..Len(ProbeOrder) :
      /\ Succeeds(ProbeOrder[i], name, val)
      /\ \A j \in 1..(i - 1) : ~Succeeds(ProbeOrder[j], name, val) }
Probed(name, val, first) ==
  /\ vals[name] = IF first = {} THEN DefaultOf(name)
                  ELSE Coerce(ProbeOrder[CHOOSE i \in first : TRUE], val).v
  /\ HasFired <=> (first = {} /\ FiresTrigger(val) /\ Accessor("trigger", name) = "item")
  /\ \A P \in RuntimeProps \ {name} : vals[P] = DefaultOf(P)

\* C34: a key that resolves to no declared property is tried on the
\* accessors string, number, boolean, color, trigger, in this order, up to
\* the first that succeeds; an absent accessor and a throwing one both
\* mean "try the next".
C34_ProbeOrder ==
  (cfg.data = "probes" /\ vmi /\ Len(sent) = 1) =>
    Probed(LastArg.o[1].k, LastArg.o[1].v,
           FirstSuccess(LastArg.o[1].k, LastArg.o[1].v))

\* ---------------------------------------------------------------- XML
\* The value the claim's order of preference picks from the element n.
Preferred(n) == IF n.a # "" THEN n.a ELSE IF n.v # "" THEN n.v ELSE n.x

\* C35: of the candidate values of a componentData element the value
\* attribute is taken first, then the text of a <value> child, then the
\* value attribute of the <data> element.
C35_XmlValuePreference ==
  (cfg.data = "xml" /\ vmi /\ Len(sent) = 1) =>
    vals["Title"] = Str(Preferred(LastArg.toks[2]))

\* ------------------------------------------------------------- editor page
\* C31: the schema handed to the synthesizer on a download was built for
\* the file, artboard and state machine selected at that moment, whatever
\* the order of file changes, selection changes and buildSchema completions.
C31_LatestSchema ==
  app.download.made =>
    app.download.schema =
      AppSchema(app.download.file, app.download.ab, app.download.sm)

====
